---- MODULE Spec2Model ----
(***************************************************************************)
(* Verification model of go-token-counter's tokenization engine:           *)
(*   - the generic max-heap priority queue (internal/spm/priorityqueue.go) *)
(*   - the SentencePiece processor (internal/spm/processor.go)             *)
(*   - the BPE encoder and its definition cache (tokenizer/bpe)            *)
(* Each subsystem has its own specification over the shared variables;     *)
(* the variables of the other subsystems stay at their initial values.     *)
(***************************************************************************)
EXTENDS Integers, Sequences, FiniteSets, TLC

VARIABLES
    items,      \* priorityQueue.items[1..] (index 0 of the Go slice is an unused sentinel)
    pqLast,     \* the last queue operation: its name, what it returned, the items before it
    spmProc,     \* the spm.Processor: the tables NewProcessor built, read-only afterwards
    calls,      \* per calling goroutine, the locals of its Processor.Encode / Decode call
    bpeTok,     \* the bpe.BPETokenizer NewEncoderByName built (its Encoder and Definition)
    bpeCall,    \* the BPETokenizer call in progress or returned, with its arguments
    definitionCache,  \* encoding.go:41, encoding name -> *Definition
    mu,         \* encoding.go:42, the RWMutex: its readers and its writer
    getters,    \* per goroutine, where it is in getDefinition and its locals
    defObjects, \* the Definition objects initDefinition has allocated, by pointer
    protoReader, \* the model data handed to NewProcessor, once it has been handed
    fnCall      \* a call of one of the package-level functions: its arguments and result

pqVars == <<items, pqLast>>
spmVars == <<spmProc, calls, protoReader>>
bpeVars == <<bpeTok, bpeCall>>
cacheVars == <<definitionCache, mu, getters, defObjects>>
vars == <<items, pqLast, spmProc, calls, bpeTok, bpeCall, definitionCache, mu, getters,
          defObjects, protoReader, fnCall>>

notPQ == <<spmVars, bpeVars, cacheVars, fnCall>>
notSPM == <<pqVars, bpeVars, cacheVars, fnCall>>
notBPE == <<pqVars, spmVars, cacheVars, fnCall>>
notCache == <<pqVars, spmVars, bpeVars, fnCall>>
notFn == <<pqVars, spmVars, bpeVars, cacheVars>>

----------------------------------------------------------------------------
(* Bounds of the priority-queue specification *)
MaxQueue == 4
MaxScore == 1
MaxLeft == 2

(***************************************************************************)
(* Priority queue                                                          *)
(***************************************************************************)

\* The element type the repository instantiates the queue with (mergeCandidate),
\* reduced to the fields its comparator reads.
PQElems == [left : 0..MaxLeft, score : 0..MaxScore]

\* (the comparison by score alone)
mergeCmpScoreOnly(a, b) ==
    IF a.score > b.score THEN 1 ELSE -1

\* processor.go:163-168, the comparator handed to newPriorityQueue
mergeCmp(a, b) ==
    IF a.score > b.score \/ (a.score = b.score /\ a.left < b.left) THEN 1 ELSE -1

swap(s, i, j) == [s EXCEPT ![i] = s[j], ![j] = s[i]]

\* len(pq.items) in the Go code counts the sentinel at index 0
goLen(s) == Len(s) + 1

RECURSIVE siftup(_, _)
siftup(s, i) ==
    IF i = 1 THEN s
    ELSE LET p == i \div 2 IN
         IF mergeCmp(s[p], s[i]) >= 0 THEN s
         ELSE siftup(swap(s, i, p), p)

siftdownNoRight(s, i) ==
    LET c == 2 * i IN
    IF c >= goLen(s) THEN [done |-> TRUE, s |-> s, i |-> i]
    ELSE IF mergeCmp(s[i], s[c]) >= 0 THEN [done |-> TRUE, s |-> s, i |-> i]
         ELSE [done |-> FALSE, s |-> swap(s, i, c), i |-> c]

\* one iteration of siftdown's loop
siftdownStep(s, i) ==
    LET c == 2 * i IN
    IF c >= goLen(s) THEN [done |-> TRUE, s |-> s, i |-> i]
    ELSE LET maxChild == IF c + 1 < goLen(s) /\ mergeCmp(s[c + 1], s[c]) > 0
                         THEN c + 1 ELSE c
         IN IF mergeCmp(s[i], s[maxChild]) >= 0 THEN [done |-> TRUE, s |-> s, i |-> i]
            ELSE [done |-> FALSE, s |-> swap(s, i, maxChild), i |-> maxChild]

RECURSIVE siftdown(_, _)
siftdown(s, i) ==
    LET r == siftdownStep(s, i) IN
    IF r.done THEN r.s ELSE siftdown(r.s, r.i)

RECURSIVE rebuildFrom(_, _)
rebuildFrom(s, i) == IF i < 1 THEN s ELSE rebuildFrom(siftdown(s, i), i - 1)

rebuildHeap(s) == rebuildFrom(s, goLen(s) \div 2)

pqInsert(s, e) == siftup(Append(s, e), Len(s) + 1)

\* (the pop that leaves the maximum in the queue)
pqPopRestKeep(s) == s

\* PopMax on a non-empty queue: the items left after the pop
pqPopRest(s) ==
    LET moved == [s EXCEPT ![1] = s[Len(s)]] IN
    siftdown(SubSeq(moved, 1, Len(s) - 1), 1)

\* (the copy loop with the write index left where it is)
RECURSIVE compactItemsNoAdvance(_, _, _, _)
compactItemsNoAdvance(s, i, j, rm) ==
    IF j > Len(s) THEN SubSeq(s, 1, i - 1)
    ELSE IF s[j] \notin rm THEN compactItemsNoAdvance([s EXCEPT ![i] = s[j]], i, j + 1, rm)
    ELSE compactItemsNoAdvance(s, i, j + 1, rm)

\* priorityqueue.go:43-50: items[j] that rm spares move down to the write index i;
\* the slice is cut at i
RECURSIVE compactItems(_, _, _, _)
compactItems(s, i, j, rm) ==
    IF j > Len(s) THEN SubSeq(s, 1, i - 1)
    ELSE IF s[j] \notin rm THEN compactItems([s EXCEPT ![i] = s[j]], i + 1, j + 1, rm)
    ELSE compactItems(s, i, j + 1, rm)

\* priorityqueue.go:34-39: the first index whose element rm matches, Len(s) + 1 for none
firstMatch(s, rm) ==
    IF \A i \in DOMAIN s : s[i] \notin rm THEN Len(s) + 1
    ELSE CHOOSE i \in DOMAIN s : s[i] \in rm /\ \A k \in 1..(i - 1) : s[k] \notin rm

\* RemoveFunc: rm is the set of elements the predicate accepts
pqRemoveFunc(s, rm) ==
    LET i == firstMatch(s, rm) IN
    IF i = Len(s) + 1 THEN s
    ELSE rebuildHeap(compactItems(s, i, i + 1, rm))

\* the predicates the queue specification tries
PQPreds == {{e \in PQElems : e.score = k} : k \in 0..MaxScore}
           \cup {{e \in PQElems : e.left = k} : k \in 0..MaxLeft}

PQNone == [op |-> "none", ret |-> <<>>, before |-> <<>>]

\* the goroutines that may call into one engine
Threads == {1, 2}

NoProc == [status |-> "none"]
IdleCall == [pc |-> "idle"]

NoTok == [status |-> "none"]
IdleGetter == [pc |-> "idle", calls |-> 0, received |-> {}, failed |-> {}]
MuFree == [readers |-> {}, writer |-> 0]

FnIdle == fnCall = IdleCall
PQIdle == items = <<>> /\ pqLast = PQNone
NoReader == [kind |-> "none"]
SPMIdle ==
    spmProc = NoProc /\ calls = [t \in Threads |-> IdleCall] /\ protoReader = NoReader
BPEIdle == bpeTok = NoTok /\ bpeCall = IdleCall
CacheIdle ==
    /\ definitionCache = <<>>
    /\ mu = MuFree
    /\ getters = [t \in Threads |-> IdleGetter]
    /\ defObjects = <<>>

InitPQ ==
    /\ FnIdle
    /\ PQIdle
    /\ SPMIdle
    /\ BPEIdle
    /\ CacheIdle

Insert(e) ==
    /\ Len(items) < MaxQueue
    /\ items' = pqInsert(items, e)
    /\ pqLast' = [op |-> "Insert", ret |-> <<>>, before |-> items]
    /\ UNCHANGED notPQ

\* PopMax panics on an empty queue; the specification calls it on non-empty ones
PopMax ==
    /\ Len(items) >= 1
    /\ items' = pqPopRest(items)
    /\ pqLast' = [op |-> "PopMax", ret |-> <<items[1]>>, before |-> items]
    /\ UNCHANGED notPQ

RemoveFunc(rm) ==
    /\ items' = pqRemoveFunc(items, rm)
    /\ pqLast' = [op |-> "RemoveFunc", ret |-> <<>>, before |-> items, rm |-> rm]
    /\ UNCHANGED notPQ

NextPQ ==
    \/ \E e \in PQElems : Insert(e)
    \/ PopMax
    \/ \E rm \in PQPreds : RemoveFunc(rm)

SpecPQ == InitPQ /\ [][NextPQ]_vars

\* a is greater than or equal to b under the comparator: b does not compare greater
Geq(a, b) == mergeCmp(b, a) <= 0

\* C6: every PopMax made on a non-empty queue returns an element that is greater
\* than or equal to, under the comparator, every element held at that moment.
C6_PopMaxIsMaximal ==
    pqLast.op = "PopMax" =>
        \A i \in DOMAIN pqLast.before : Geq(pqLast.ret[1], pqLast.before[i])

\* a PopMax that followed a RemoveFunc-compacted, multi-element queue with distinct priorities
C6_Witness ==
    /\ pqLast.op = "PopMax"
    /\ Len(pqLast.before) >= 3
    /\ \E i \in DOMAIN pqLast.before : mergeCmp(pqLast.ret[1], pqLast.before[i]) > 0
    /\ pqLast.before[1] # pqLast.before[Len(pqLast.before)]

----------------------------------------------------------------------------
(***************************************************************************)
(* Strings are Go strings: sequences of bytes.  A rune is written as the   *)
(* byte sequence of its UTF-8 encoding.                                    *)
(***************************************************************************)

RECURSIVE Concat(_)
Concat(ss) == IF ss = <<>> THEN <<>> ELSE Head(ss) \o Concat(Tail(ss))

\* s has t as a prefix
HasPrefix(s, t) == Len(t) <= Len(s) /\ SubSeq(s, 1, Len(t)) = t

Drop(s, n) == SubSeq(s, n + 1, Len(s))

\* strings.ReplaceAll(s, old, new) for a non-empty old: left to right, non-overlapping
RECURSIVE ReplaceAll(_, _, _)
ReplaceAll(s, old, new) ==
    IF s = <<>> THEN <<>>
    ELSE IF HasPrefix(s, old) THEN new \o ReplaceAll(Drop(s, Len(old)), old, new)
    ELSE <<Head(s)>> \o ReplaceAll(Tail(s), old, new)

\* utf8.RuneError (U+FFFD) as its UTF-8 encoding
RuneError == <<239, 191, 189>>

IsCont(b) == b >= 128 /\ b <= 191

\* utf8.DecodeRune / utf8.DecodeRuneInString on a byte string, for the one-, two-
\* and three-byte forms: the rune and the number of bytes it takes
DecodeRune(s) ==
    IF s = <<>> THEN [r |-> RuneError, size |-> 0]
    ELSE IF s[1] < 128 THEN [r |-> <<s[1]>>, size |-> 1]
    ELSE IF s[1] >= 194 /\ s[1] <= 223 /\ Len(s) >= 2 /\ IsCont(s[2])
         THEN [r |-> SubSeq(s, 1, 2), size |-> 2]
    ELSE IF s[1] >= 225 /\ s[1] <= 239 /\ s[1] # 237 /\ Len(s) >= 3
            /\ IsCont(s[2]) /\ IsCont(s[3])
         THEN [r |-> SubSeq(s, 1, 3), size |-> 3]
    ELSE [r |-> RuneError, size |-> 1]

\* the runes of a string, as `for _, r := range s` visits them
RECURSIVE Runes(_)
Runes(s) ==
    IF s = <<>> THEN <<>>
    ELSE LET d == DecodeRune(s) IN <<d.r>> \o Runes(Drop(s, d.size))

\* normalize.go:5, the bytes of the string literal
whitespaceSeparator == <<226, 128, 154, 195, 177, 195, 133>>

replaceSpacesBySeparator(text) == ReplaceAll(text, <<32>>, whitespaceSeparator)

normalize(text) == replaceSpacesBySeparator(text)

replaceSeparatorsBySpace(text) == ReplaceAll(text, whitespaceSeparator, <<32>>)

----------------------------------------------------------------------------
(***************************************************************************)
(* SentencePiece model definitions (spmmodel.ModelProto) and NewProcessor  *)
(***************************************************************************)

\* The byte values the model family declares byte pieces for; it stands for the
\* 256 byte values and holds every byte of the texts the specifications encode.
ByteSeq == <<32, 97, 98, 128, 133, 154, 177, 195, 226>>
ByteUniverse == {ByteSeq[i] : i \in DOMAIN ByteSeq}

HexDigit(n) == IF n < 10 THEN 48 + n ELSE 55 + n

\* the surface form <0xHH> of the byte piece for b
bytePieceText(b) == <<60, 48, 120, HexDigit(b \div 16), HexDigit(b % 16), 62>>

HexDigitVal(c) ==
    IF c >= 48 /\ c <= 57 THEN c - 48
    ELSE IF c >= 97 /\ c <= 102 THEN c - 87
    ELSE IF c >= 65 /\ c <= 70 THEN c - 55
    ELSE -1

RECURSIVE ParseHexDigits(_, _)
ParseHexDigits(s, acc) ==
    IF s = <<>> THEN acc
    ELSE IF HexDigitVal(Head(s)) < 0 THEN -1
    ELSE ParseHexDigits(Tail(s), 16 * acc + HexDigitVal(Head(s)))

TrimPrefix(s, t) == IF HasPrefix(s, t) THEN Drop(s, Len(t)) ELSE s

TrimSuffix(s, t) ==
    IF Len(t) <= Len(s) /\ SubSeq(s, Len(s) - Len(t) + 1, Len(s)) = t
    THEN SubSeq(s, 1, Len(s) - Len(t)) ELSE s

\* strconv.ParseInt(bv, 16, 32) of the trimmed text; -1 on a syntax error.  A
\* signed value is outside 0..255 unless it is zero, as the caller requires.
convertHexValue(bv) ==
    LET t == TrimSuffix(TrimPrefix(bv, <<60, 48, 120>>), <<62>>)
        signed == t # <<>> /\ Head(t) \in {43, 45}
        digits == IF signed THEN Tail(t) ELSE t
        n == IF digits = <<>> THEN -1 ELSE ParseHexDigits(digits, 0)
    IN IF n < 0 THEN -1
       ELSE IF signed /\ Head(t) = 45 THEN 0 - n ELSE n

Piece(text, score, type) == [piece |-> text, score |-> score, type |-> type]

isNormalPiece(p) == p.type \in {"NORMAL", "USER_DEFINED", "UNUSED"}

Max(S) == CHOOSE x \in S : \A y \in S : y <= x

\* the pass over mp.GetPieces() for the unknown id and the byte-piece check;
\* i is the 1-based position, ids are 0-based
RECURSIVE scanPieces(_, _, _)
scanPieces(mp, i, unkID) ==
    IF i > Len(mp.pieces) THEN [err |-> "", unkID |-> unkID]
    ELSE LET p == mp.pieces[i] IN
         IF p.type = "USER_DEFINED" THEN scanPieces(mp, i + 1, unkID)
         ELSE IF p.type = "UNKNOWN" THEN
              IF unkID > 0 THEN [err |-> "unk redefined", unkID |-> unkID]
              ELSE scanPieces(mp, i + 1, i - 1)
         ELSE IF p.type = "BYTE" /\ ~mp.byteFallback
              THEN [err |-> "byte piece found but byte_fallback=false", unkID |-> unkID]
         ELSE scanPieces(mp, i + 1, unkID)

\* a Go map built by assigning m[key(i)] = i in list order: the last index wins
lastIndexMap(mp, idx) ==
    [k \in {mp.pieces[i].piece : i \in idx} |->
        Max({i \in idx : mp.pieces[i].piece = k}) - 1]

isBytePiece(p) ==
    p.type = "BYTE" /\ convertHexValue(p.piece) >= 0 /\ convertHexValue(p.piece) < 256

\* prefixmatcher.go: the trie as the set of its nodes, each node named by the rune
\* path that reaches it from the root
RunePrefixes(w) == {SubSeq(Runes(w), 1, n) : n \in 0..Len(Runes(w))}

newPrefixMatcher(vocab) ==
    [nodes |-> {<<>>} \cup UNION {RunePrefixes(w) : w \in vocab},
     final |-> {Runes(w) : w \in vocab}]

ProcFailed(how, msg) == [status |-> how, err |-> msg]

NewProcessor(mp) ==
    IF mp.modelType # "BPE" THEN ProcFailed("error", "model type not supported")
    ELSE IF ~mp.normalizer.present THEN ProcFailed("panic", "nil dereference")
    ELSE IF mp.normalizer.addDummyPrefix = "unset" THEN ProcFailed("panic", "nil dereference")
    ELSE IF mp.normalizer.addDummyPrefix = "true"
         THEN ProcFailed("error", "normalizer spec options not supported")
    ELSE IF mp.normalizer.removeExtraWhitespaces = "unset"
         THEN ProcFailed("panic", "nil dereference")
    ELSE IF mp.normalizer.removeExtraWhitespaces = "true"
         THEN ProcFailed("error", "normalizer spec options not supported")
    ELSE LET scan == scanPieces(mp, 1, -1)
             byteIdx == {i \in DOMAIN mp.pieces : isBytePiece(mp.pieces[i])}
             byteVals == {convertHexValue(mp.pieces[i].piece) : i \in byteIdx}
             lastFor(b) == Max({i \in byteIdx : convertHexValue(mp.pieces[i].piece) = b})
             normalIdx == {i \in DOMAIN mp.pieces : isNormalPiece(mp.pieces[i])}
             normalLens == {Len(mp.pieces[i].piece) : i \in normalIdx}
         IN IF scan.err # "" THEN ProcFailed("error", scan.err)
            ELSE IF scan.unkID < 0 THEN ProcFailed("error", "unk symbol is not defined")
            ELSE IF mp.byteFallback /\ \E b \in ByteUniverse : b \notin byteVals
                 THEN ProcFailed("error", "byte value not found")
            ELSE [status |-> "ok",
                  mdl |-> mp,
                  pieces |-> lastIndexMap(mp, normalIdx),
                  reserved |-> lastIndexMap(mp, DOMAIN mp.pieces \ normalIdx),
                  unknownID |-> scan.unkID,
                  userDefinedMatcher |-> newPrefixMatcher(
                      {mp.pieces[i].piece : i \in {j \in DOMAIN mp.pieces :
                                                     mp.pieces[j].type = "USER_DEFINED"}}),
                  byte2Token |-> [b \in byteVals |->
                      [ID |-> lastFor(b) - 1, Text |-> mp.pieces[lastFor(b)].piece]],
                  idToByte |-> [id \in {i - 1 : i \in byteIdx} |->
                      convertHexValue(mp.pieces[id + 1].piece)],
                  maxPieceLength |-> IF normalLens = {} THEN 0 ELSE Max(normalLens)]

----------------------------------------------------------------------------
(***************************************************************************)
(* Processor.Encode: segmentation, candidate seeding, merge loop           *)
(***************************************************************************)

\* utf8.RuneLen of a rune: the length of its encoding
RuneLen(r) == Len(r)

\* findPrefixLen's loop from rune k on; i is the byte offset of rune k
RECURSIVE walkTrie(_, _, _, _, _, _)
walkTrie(pm, runes, sizes, k, node, acc) ==
    IF k > Len(runes) THEN acc.maxLen
    ELSE LET child == Append(node, runes[k]) IN
         IF child \notin pm.nodes THEN acc.maxLen
         ELSE walkTrie(pm, runes, sizes, k + 1, child,
                       [i |-> acc.i + sizes[k],
                        maxLen |-> IF child \in pm.final
                                   THEN acc.i + RuneLen(runes[k]) ELSE acc.maxLen])

\* the byte width `range` advances by for each rune of s
RECURSIVE RuneSizes(_)
RuneSizes(s) ==
    IF s = <<>> THEN <<>>
    ELSE LET d == DecodeRune(s) IN <<d.size>> \o RuneSizes(Drop(s, d.size))

findPrefixLen(pm, text) ==
    walkTrie(pm, Runes(text), RuneSizes(text), 1, <<>>, [i |-> 0, maxLen |-> 0])

symbolMatch(proc, text) ==
    LET prefixLen == findPrefixLen(proc.userDefinedMatcher, text) IN
    IF prefixLen > 0 THEN [slen |-> prefixLen, found |-> TRUE]
    ELSE [slen |-> DecodeRune(text).size, found |-> FALSE]

\* the segmentation loop (it runs its body once even on the empty text);
\* n is the index the next symbol gets
RECURSIVE segment(_, _, _)
segment(proc, text, n) ==
    LET m == symbolMatch(proc, text)
        sym == [prev |-> n - 1, next |-> n + 1, noMerge |-> m.found,
                symbol |-> SubSeq(text, 1, m.slen)]
        rest == Drop(text, m.slen)
    IN <<sym>> \o (IF rest = <<>> THEN <<>> ELSE segment(proc, rest, n + 1))

\* symList[i] for a Go index i
Sym(symList, i) == symList[i + 1]

findMerged(proc, x, y) ==
    LET combined == x.symbol \o y.symbol IN
    IF Len(combined) > proc.maxPieceLength THEN [ok |-> FALSE]
    ELSE IF combined \in DOMAIN proc.pieces
         THEN [ok |-> TRUE, id |-> proc.pieces[combined],
               symbol |-> proc.mdl.pieces[proc.pieces[combined] + 1].piece]
    ELSE [ok |-> FALSE]

\* suggestNewMergePair: the queue after the call
suggestNewMergePair(proc, symList, queue, left, right) ==
    IF left = -1 \/ right = -1 \/ Sym(symList, left).noMerge \/ Sym(symList, right).noMerge
    THEN queue
    ELSE LET m == findMerged(proc, Sym(symList, left), Sym(symList, right)) IN
         IF m.ok
         THEN pqInsert(queue, [left |-> left, right |-> right, length |-> Len(m.symbol),
                               score |-> proc.mdl.pieces[m.id + 1].score])
         ELSE queue

RECURSIVE seedFrom(_, _, _, _)
seedFrom(proc, symList, queue, i) ==
    IF i >= Len(symList) THEN queue
    ELSE seedFrom(proc, symList, suggestNewMergePair(proc, symList, queue, i - 1, i), i + 1)

candidateIsDead(symList, candidate) ==
    LET leftSymbol == Sym(symList, candidate.left).symbol
        rightSymbol == Sym(symList, candidate.right).symbol
    IN leftSymbol = <<>> \/ rightSymbol = <<>>
       \/ Len(leftSymbol) + Len(rightSymbol) # candidate.length

\* lines 137-141: whether some `text[:slen]` of the segmentation loop slices past
\* the end of the text, which panics (slice bounds out of range)
RECURSIVE sliceOutOfRange(_, _)
sliceOutOfRange(proc, text) ==
    LET m == symbolMatch(proc, text) IN
    IF m.slen > Len(text) THEN TRUE
    ELSE IF Drop(text, m.slen) = <<>> THEN FALSE
    ELSE sliceOutOfRange(proc, Drop(text, m.slen))

\* the state of a call when its merge loop starts, or when segmentation panicked
encodeStart(proc, text) ==
    LET norm == normalize(text) IN
    IF sliceOutOfRange(proc, norm)
    THEN [pc |-> "panic", input |-> text, normalized |-> norm, symList |-> <<>>,
          nTokens |-> 0, mergeQueue |-> <<>>, mergeQueueDead |-> 0, applied |-> 0,
          last |-> "slice", tokens |-> <<>>]
    ELSE LET segs == segment(proc, norm, 0)
             symList == [segs EXCEPT ![Len(segs)].next = -1]
         IN [pc |-> "merge", input |-> text, normalized |-> norm, symList |-> symList,
             nTokens |-> Len(symList), mergeQueue |-> seedFrom(proc, symList, <<>>, 1),
             mergeQueueDead |-> 0, applied |-> 0, last |-> "seed", tokens |-> <<>>]

\* (the splice with the back pointer of the new successor left as it was)
applyMergeNoPrevFix(symList, candidate, mergedSymbol) ==
    LET rightSymbol == Sym(symList, candidate.right)
        sl1 == [symList EXCEPT ![candidate.left + 1].symbol = mergedSymbol,
                               ![candidate.left + 1].next = rightSymbol.next]
    IN [sl1 EXCEPT ![candidate.right + 1].symbol = <<>>]

\* lines 229-237: left takes the merged text, right is spliced out and emptied
applyMerge(symList, candidate, mergedSymbol) ==
    LET rightSymbol == Sym(symList, candidate.right)
        sl1 == [symList EXCEPT ![candidate.left + 1].symbol = mergedSymbol,
                               ![candidate.left + 1].next = rightSymbol.next]
        sl2 == IF rightSymbol.next >= 0
               THEN [sl1 EXCEPT ![rightSymbol.next + 1].prev = candidate.left]
               ELSE sl1
    IN [sl2 EXCEPT ![candidate.right + 1].symbol = <<>>]

\* (the purge taking every candidate for stale)
deadSetAll(symList, queue) == {queue[i] : i \in DOMAIN queue}

deadSet(symList, queue) ==
    {queue[i] : i \in {j \in DOMAIN queue : candidateIsDead(symList, queue[j])}}

\* one iteration of the merge loop, entered with a non-empty queue
mergeIteration(proc, c) ==
    LET candidate == c.mergeQueue[1]
        popped == pqPopRest(c.mergeQueue)
        leftSymbol == Sym(c.symList, candidate.left)
        rightSymbol == Sym(c.symList, candidate.right)
    IN IF candidateIsDead(c.symList, candidate)
       THEN [c EXCEPT !.mergeQueue = popped, !.mergeQueueDead = @ - 1, !.last = "dead"]
       ELSE LET compact == c.mergeQueueDead * 3 > Len(popped)
                queue1 == IF compact THEN pqRemoveFunc(popped, deadSet(c.symList, popped))
                          ELSE popped
                dead1 == IF compact THEN 0 ELSE c.mergeQueueDead
                m == findMerged(proc, leftSymbol, rightSymbol)
            IN IF ~m.ok THEN [c EXCEPT !.pc = "panic", !.mergeQueue = queue1,
                                       !.mergeQueueDead = dead1, !.last = "panic"]
               ELSE LET sl3 == applyMerge(c.symList, candidate, m.symbol)
                        q2 == suggestNewMergePair(proc, sl3, queue1, leftSymbol.prev,
                                                  candidate.left)
                        q3 == suggestNewMergePair(proc, sl3, q2, candidate.left,
                                                  rightSymbol.next)
                    IN [c EXCEPT !.symList = sl3, !.nTokens = @ - 1, !.mergeQueue = q3,
                                 !.mergeQueueDead = dead1 + 1, !.applied = @ + 1,
                                 !.last = IF compact THEN "compact+merge" ELSE "merge"]

\* (the lookup in the pieces index tried before the reserved index)
symbolToIDPiecesFirst(proc, symbol) ==
    IF symbol \in DOMAIN proc.pieces THEN proc.pieces[symbol]
    ELSE IF symbol \in DOMAIN proc.reserved THEN proc.reserved[symbol]
    ELSE proc.unknownID

symbolToID(proc, symbol) ==
    IF symbol \in DOMAIN proc.reserved THEN proc.reserved[symbol]
    ELSE IF symbol \in DOMAIN proc.pieces THEN proc.pieces[symbol]
    ELSE proc.unknownID

\* the zero Token a Go map lookup yields for a missing key
ZeroToken == [ID |-> 0, Text |-> <<>>]

symbolTokens(proc, symbol) ==
    LET id == symbolToID(proc, symbol) IN
    IF id = proc.unknownID /\ proc.mdl.byteFallback
    THEN [j \in 1..Len(symbol) |->
            IF symbol[j] \in DOMAIN proc.byte2Token THEN proc.byte2Token[symbol[j]]
            ELSE ZeroToken]
    ELSE <<[ID |-> id, Text |-> symbol]>>

\* the walk over the list from node 0 that builds the tokens
RECURSIVE materialize(_, _, _)
materialize(proc, symList, i) ==
    IF i < 0 THEN <<>>
    ELSE symbolTokens(proc, Sym(symList, i).symbol)
         \o materialize(proc, symList, Sym(symList, i).next)

----------------------------------------------------------------------------
(***************************************************************************)
(* Processor.Decode                                                        *)
(***************************************************************************)

pieceOf(proc, id) == proc.mdl.pieces[id + 1]

isByteID(proc, id) == pieceOf(proc, id).type = "BYTE"

isControlID(proc, id) == pieceOf(proc, id).type = "CONTROL"

\* the number of leading byte ids of ids
RECURSIVE byteRun(_, _)
byteRun(proc, ids) ==
    IF ids = <<>> \/ ~isByteID(proc, Head(ids)) THEN 0
    ELSE 1 + byteRun(proc, Tail(ids))

\* the bytes collected for a run of byte ids, written rune by rune
decodeByteRun(proc, run) ==
    LET buf == [k \in 1..Len(run) |->
                   IF run[k] \in DOMAIN proc.idToByte THEN proc.idToByte[run[k]] ELSE 0]
    IN Concat(Runes(buf))

\* (a CONTROL id written out like any other piece)
decodeOneKeepControl(proc, id) ==
    IF id = proc.unknownID THEN proc.mdl.unkSurface
    ELSE replaceSeparatorsBySpace(pieceOf(proc, id).piece)

decodeOne(proc, id) ==
    IF isControlID(proc, id) THEN <<>>
    ELSE IF id = proc.unknownID THEN proc.mdl.unkSurface
    ELSE replaceSeparatorsBySpace(pieceOf(proc, id).piece)

RECURSIVE Decode(_, _)
Decode(proc, ids) ==
    IF ids = <<>> THEN <<>>
    ELSE LET n == byteRun(proc, ids)
             rest == Drop(ids, n)
         IN decodeByteRun(proc, SubSeq(ids, 1, n))
            \o (IF rest = <<>> THEN <<>>
                ELSE decodeOne(proc, Head(rest)) \o Decode(proc, Tail(rest)))

----------------------------------------------------------------------------
(***************************************************************************)
(* The model definitions and texts the SentencePiece specifications load   *)
(***************************************************************************)

MaxTextLen == 4

\* a, b, space, and a two-byte letter no model has a piece for
TextRunes == {<<97>>, <<98>>, <<32>>, <<195, 177>>}

RECURSIVE TextsUpTo(_)
TextsUpTo(n) ==
    IF n = 0 THEN {<<>>}
    ELSE LET shorter == TextsUpTo(n - 1) IN
         shorter \cup {t \o r : t \in shorter, r \in TextRunes}

Texts == TextsUpTo(MaxTextLen)

unkText == <<60, 117, 110, 107, 62>>
ctlText == <<60, 115, 62>>
defaultUnkSurface == <<32, 226, 129, 135, 32>>

bytePieces == [k \in DOMAIN ByteSeq |-> Piece(bytePieceText(ByteSeq[k]), 0, "BYTE")]

NormalizerOff ==
    [present |-> TRUE, addDummyPrefix |-> "false", removeExtraWhitespaces |-> "false"]

ModelWith(normal, bf) ==
    [modelType |-> "BPE", byteFallback |-> bf, normalizer |-> NormalizerOff,
     unkSurface |-> defaultUnkSurface,
     pieces |-> <<Piece(unkText, 0, "UNKNOWN"), Piece(ctlText, 0, "CONTROL")>>
                \o (IF bf THEN bytePieces ELSE <<>>) \o normal]

\* equal scores for ab and ba: the leftmost-first tie-break decides
TiesModel ==
    ModelWith(<<Piece(<<97>>, 0, "NORMAL"), Piece(<<98>>, 0, "NORMAL"),
                Piece(<<97, 98>>, 5, "NORMAL"), Piece(<<98, 97>>, 5, "NORMAL"),
                Piece(<<97, 98, 97>>, 4, "NORMAL"),
                Piece(<<97, 98, 97, 98>>, 3, "NORMAL")>>, TRUE)

\* a stale low-score candidate stays queued until compaction; the separator is covered
CompactionModel ==
    ModelWith(<<Piece(<<97>>, 0, "NORMAL"), Piece(<<98>>, 0, "NORMAL"),
                Piece(<<97, 98>>, 5, "NORMAL"), Piece(<<98, 97>>, 3, "NORMAL"),
                Piece(<<97, 98, 97>>, 4, "NORMAL"), Piece(<<98, 98>>, 2, "NORMAL"),
                Piece(<<226, 128, 154>>, 0, "NORMAL"), Piece(<<195, 133>>, 0, "NORMAL"),
                Piece(<<226, 128, 154, 195, 177>>, 3, "NORMAL"),
                Piece(whitespaceSeparator, 3, "NORMAL")>>, TRUE)

\* ab is a user-defined token
UserDefinedModel ==
    ModelWith(<<Piece(<<97>>, 0, "NORMAL"), Piece(<<98>>, 0, "NORMAL"),
                Piece(<<97, 98>>, 0, "USER_DEFINED"), Piece(<<98, 97>>, 4, "NORMAL"),
                Piece(<<97, 97>>, 3, "NORMAL"), Piece(<<97, 98, 97>>, 5, "NORMAL")>>, TRUE)

\* no piece covers any text: the pure byte-fallback path
BytesOnlyModel == ModelWith(<<>>, TRUE)

NoFallbackModel ==
    ModelWith(<<Piece(<<97>>, 0, "NORMAL"), Piece(<<97, 98>>, 5, "NORMAL"),
                Piece(<<98, 97>>, 5, "NORMAL")>>, FALSE)

ModelProtos == {TiesModel, CompactionModel, UserDefinedModel, BytesOnlyModel, NoFallbackModel}

\* U+FFFD itself is a user-defined token
ReplacementModel ==
    ModelWith(<<Piece(<<97>>, 0, "NORMAL"), Piece(<<98>>, 0, "NORMAL"),
                Piece(<<97, 98>>, 5, "NORMAL"), Piece(RuneError, 0, "USER_DEFINED")>>, TRUE)

\* the text b is a CONTROL piece and, later in the table, a NORMAL piece
ReservedModel ==
    ModelWith(<<Piece(<<97>>, 0, "NORMAL"), Piece(<<98>>, 0, "CONTROL"),
                Piece(<<98>>, 0, "NORMAL"), Piece(<<97, 97>>, 5, "NORMAL")>>, TRUE)

MaxRawLen == 3

\* a, b, space, the two-byte letter, and a stray continuation byte (not valid UTF-8)
RawUnits == {<<97>>, <<98>>, <<32>>, <<195, 177>>, <<128>>}

RECURSIVE RawTextsUpTo(_)
RawTextsUpTo(n) ==
    IF n = 0 THEN {<<>>}
    ELSE LET shorter == RawTextsUpTo(n - 1) IN
         shorter \cup {t \o r : t \in shorter, r \in RawUnits}

RawTexts == RawTextsUpTo(MaxRawLen)

----------------------------------------------------------------------------
(***************************************************************************)
(* The SentencePiece specification: one goroutine encodes and decodes      *)
(***************************************************************************)

InitSPM ==
    /\ FnIdle
    /\ PQIdle
    /\ BPEIdle
    /\ CacheIdle
    /\ \E mp \in ModelProtos : NewProcessor(mp).status = "ok" /\ spmProc = NewProcessor(mp)
    /\ calls = [t \in Threads |-> IdleCall]
    /\ protoReader = NoReader

\* (the symbol list and the merge queue kept in one place for all callers)
storeShared(cs, t, c) ==
    [u \in Threads |->
        IF u = t THEN c
        ELSE IF cs[u].pc = "merge" /\ c.pc = "merge"
             THEN [cs[u] EXCEPT !.symList = c.symList, !.nTokens = c.nTokens,
                                !.mergeQueue = c.mergeQueue,
                                !.mergeQueueDead = c.mergeQueueDead]
             ELSE cs[u]]

\* processor.go:147-176,291-292: symList, mergeQueue, mergeQueueDead, tokens and the
\* decode buffer are locals of the call, so a step of goroutine t writes t's own state
storeLocal(cs, t, c) == [cs EXCEPT ![t] = c]

\* Processor.Encode up to the start of the merge loop
Encode(t, text) ==
    /\ spmProc.status = "ok"
    /\ calls[t].pc = "idle"
    /\ calls' = storeLocal(calls, t, encodeStart(spmProc, text))
    /\ UNCHANGED <<spmProc, protoReader, notSPM>>

\* one iteration of `for mergeQueue.Len() > 0`
MergeStep(t) ==
    /\ calls[t].pc = "merge"
    /\ Len(calls[t].mergeQueue) > 0
    /\ calls' = storeLocal(calls, t, mergeIteration(spmProc, calls[t]))
    /\ UNCHANGED <<spmProc, protoReader, notSPM>>

\* the loop has ended: build the tokens and return
Materialize(t) ==
    /\ calls[t].pc = "merge"
    /\ Len(calls[t].mergeQueue) = 0
    /\ calls' = storeLocal(calls, t,
                            [calls[t] EXCEPT !.pc = "done",
                                             !.tokens = materialize(spmProc, calls[t].symList, 0),
                                             !.last = "return"])
    /\ UNCHANGED <<spmProc, protoReader, notSPM>>

tokenIDs(tokens) == [k \in DOMAIN tokens |-> tokens[k].ID]

\* Processor.Decode of the ids Encode returned
DecodeCall(t) ==
    /\ calls[t].pc = "done"
    /\ calls' = storeLocal(calls, t,
                            [pc |-> "decoded", input |-> calls[t].input,
                             tokens |-> calls[t].tokens,
                             decoded |-> Decode(spmProc, tokenIDs(calls[t].tokens))])
    /\ UNCHANGED <<spmProc, protoReader, notSPM>>

NextSPM ==
    \/ \E text \in Texts : Encode(1, text)
    \/ MergeStep(1)
    \/ Materialize(1)
    \/ DecodeCall(1)

SpecSPM == InitSPM /\ [][NextSPM]_vars

\* the same goroutine on any byte string, valid UTF-8 or not
InitRaw ==
    /\ FnIdle
    /\ PQIdle
    /\ BPEIdle
    /\ CacheIdle
    /\ \E mp \in {TiesModel, CompactionModel, UserDefinedModel, NoFallbackModel,
                   ReplacementModel, ReservedModel} :
          spmProc = NewProcessor(mp)
    /\ calls = [t \in Threads |-> IdleCall]
    /\ protoReader = NoReader

NextRaw ==
    \/ \E text \in RawTexts : Encode(1, text)
    \/ MergeStep(1)
    \/ Materialize(1)
    \/ DecodeCall(1)

SpecRaw == InitRaw /\ [][NextRaw]_vars

----------------------------------------------------------------------------
(***************************************************************************)
(* Properties of the SentencePiece engine                                  *)
(***************************************************************************)

\* the Go indices reached from node i by following next
RECURSIVE reachFrom(_, _)
reachFrom(symList, i) ==
    IF i < 0 THEN <<>> ELSE <<i>> \o reachFrom(symList, Sym(symList, i).next)

SeqToSet(q) == {q[k] : k \in DOMAIN q}

InLoop(c) == c.pc = "merge"

\* the symbol list of a call is well-formed
WellFormed(c) ==
    LET reached == reachFrom(c.symList, 0) IN
    /\ SeqToSet(reached) = {i \in 0..(Len(c.symList) - 1) : Sym(c.symList, i).symbol # <<>>}
    /\ \A k \in DOMAIN reached :
          Sym(c.symList, reached[k]).next >= 0 =>
              Sym(c.symList, Sym(c.symList, reached[k]).next).prev = reached[k]
    /\ Concat([k \in DOMAIN reached |-> Sym(c.symList, reached[k]).symbol]) = c.normalized
    /\ Len(reached) = c.nTokens

\* every queued candidate that touches a node of an applied merge with the
\* text it had before the merge is dead: a live candidate joins two adjacent nodes
LiveAreAdjacent(c) ==
    \A k \in DOMAIN c.mergeQueue :
        LET q == c.mergeQueue[k] IN
        ~candidateIsDead(c.symList, q) =>
            /\ Sym(c.symList, q.left).next = q.right
            /\ Sym(c.symList, q.right).prev = q.left

\* C7: throughout the merge loop on a non-empty input the nodes reached from node 0
\* are exactly the nodes with non-empty text, successors point back through prev, the
\* reached texts concatenate to the normalized input, and a queued candidate that
\* shares a node with an applied merge is dead (no node's text is merged twice).
C7_SymbolListWellFormed ==
    \A t \in Threads :
        (InLoop(calls[t]) /\ calls[t].input # <<>>) =>
            WellFormed(calls[t]) /\ LiveAreAdjacent(calls[t])

\* a merge has been applied while another queued candidate shares its node
C7_Witness ==
    \E t \in Threads :
        /\ InLoop(calls[t])
        /\ calls[t].last \in {"merge", "compact+merge"}
        /\ \E k \in DOMAIN calls[t].mergeQueue :
              /\ candidateIsDead(calls[t].symList, calls[t].mergeQueue[k])
              /\ Sym(calls[t].symList, calls[t].mergeQueue[k].left).symbol = <<>>

\* C4: with byte-fallback enabled, Decode of the ids Encode returned is the text
C4_RoundTrip ==
    \A t \in Threads :
        (calls[t].pc = "decoded" /\ spmProc.mdl.byteFallback) =>
            calls[t].decoded = calls[t].input

----------------------------------------------------------------------------
(***************************************************************************)
(* BPE engine.  A text is the sequence of its runes ([]rune(text)), each   *)
(* rune a one-character string; regexp2 indexes matches in runes.          *)
(***************************************************************************)

\* Regular expressions as trees, matched the way regexp2's backtracking matcher
\* does: Ends gives, in the matcher's order of preference, the positions at which
\* a match of re that starts at position i (runes consumed) can end.
Lit(s) == [k |-> "lit", s |-> s]
Set(cs) == [k |-> "set", cs |-> cs]
Cat(rs) == [k |-> "seq", rs |-> rs]
Alt(rs) == [k |-> "alt", rs |-> rs]
Rep(r, min, max) == [k |-> "rep", r |-> r, min |-> min, max |-> max]
Opt(r) == Rep(r, 0, 1)
Plus(r) == Rep(r, 1, -1)
NotAhead(r) == [k |-> "nla", r |-> r]

RECURSIVE Ends(_, _, _), EndsSeq(_, _, _), EndsAlt(_, _, _), EndsRep(_, _, _, _),
          EndsEach(_, _, _, _), EndsRepEach(_, _, _, _)

\* for each end e of es in order, the ends of the rest rs from e
EndsEach(rs, t, es, k) ==
    IF k > Len(es) THEN <<>>
    ELSE EndsSeq(rs, t, es[k]) \o EndsEach(rs, t, es, k + 1)

EndsSeq(rs, t, i) ==
    IF rs = <<>> THEN <<i>>
    ELSE EndsEach(Tail(rs), t, Ends(Head(rs), t, i), 1)

EndsAlt(rs, t, i) ==
    IF rs = <<>> THEN <<>> ELSE Ends(Head(rs), t, i) \o EndsAlt(Tail(rs), t, i)

\* greedy: one more repetition first (n repetitions made so far), then stopping here
EndsRepEach(re, t, es, n) ==
    IF es = <<>> THEN <<>>
    ELSE EndsRep(re, t, Head(es), n) \o EndsRepEach(re, t, Tail(es), n)

EndsRep(re, t, i, n) ==
    (IF re.max >= 0 /\ n >= re.max THEN <<>>
     ELSE EndsRepEach(re, t, SelectSeq(Ends(re.r, t, i), LAMBDA e : e > i), n + 1))
    \o (IF n >= re.min THEN <<i>> ELSE <<>>)

Ends(re, t, i) ==
    CASE re.k = "lit" ->
            IF i + Len(re.s) <= Len(t) /\ SubSeq(t, i + 1, i + Len(re.s)) = re.s
            THEN <<i + Len(re.s)>> ELSE <<>>
      [] re.k = "set" -> IF i < Len(t) /\ t[i + 1] \in re.cs THEN <<i + 1>> ELSE <<>>
      [] re.k = "seq" -> EndsSeq(re.rs, t, i)
      [] re.k = "alt" -> EndsAlt(re.rs, t, i)
      [] re.k = "rep" -> EndsRep(re, t, i, 0)
      [] re.k = "nla" -> IF Ends(re.r, t, i) = <<>> THEN <<i>> ELSE <<>>

\* the first match that starts at or after position from: <<start, end>>, or <<>>
RECURSIVE FindFrom(_, _, _)
FindFrom(re, t, from) ==
    IF from > Len(t) THEN <<>>
    ELSE LET es == Ends(re, t, from) IN
         IF es # <<>> THEN <<from, Head(es)>> ELSE FindFrom(re, t, from + 1)

\* core.go:163-169
findMatchIndex(text, reg) == FindFrom(reg, text, 0)

\* (FindNextMatch resuming one rune after the end of the previous match)
RECURSIVE findAllFromSkip(_, _, _)
findAllFromSkip(text, reg, from) ==
    LET m == FindFrom(reg, text, from) IN
    IF m = <<>> THEN <<>>
    ELSE <<m>> \o findAllFromSkip(text, reg, m[2] + 1)

\* core.go:173-181; after an empty match the next search starts one rune further
RECURSIVE findAllFrom(_, _, _)
findAllFrom(text, reg, from) ==
    LET m == FindFrom(reg, text, from) IN
    IF m = <<>> THEN <<>>
    ELSE <<m>> \o findAllFrom(text, reg, IF m[2] = m[1] THEN m[2] + 1 ELSE m[2])

findAllMatchIndices(text, reg) == findAllFrom(text, reg, 0)

\* core.go:183-191
cutRunes(runes, start, end) ==
    LET s == IF start < 0 THEN 0 ELSE start
        e == IF end > Len(runes) THEN Len(runes) ELSE end
    IN SubSeq(runes, s + 1, e)

\* The runes of the texts, by Unicode category
Letters == {"a", "e", "f", "p", "s", "é"}
Digits == {"1"}
Spaces == {" "}
Others == {"<", ">", "'"}
Alphabet == Letters \cup Digits \cup Spaces \cup Others

\* the UTF-8 bytes of a rune; a byte is named by its character, or in hexadecimal
RuneBytes(r) == IF r = "é" THEN <<"C3", "A9">> ELSE <<r>>

TextBytes(t) == Concat([k \in DOMAIN t |-> RuneBytes(t[k])])

\* encoding.go:132, 146, 159: the pattern of r50k_base, p50k_base and p50k_edit
\*   's|'t|'re|'ve|'m|'ll|'d| ?\p{L}+| ?\p{N}+| ?[^\s\p{L}\p{N}]+|\s+(?!\S)|\s+
\* (the contractions spelled with letters outside the alphabet cannot match)
P50kPat ==
    Alt(<<Lit(<<"'", "s">>), Lit(<<"'", "t">>), Lit(<<"'", "r", "e">>),
          Lit(<<"'", "v", "e">>), Lit(<<"'", "m">>), Lit(<<"'", "l", "l">>),
          Lit(<<"'", "d">>),
          Cat(<<Opt(Lit(<<" ">>)), Plus(Set(Letters))>>),
          Cat(<<Opt(Lit(<<" ">>)), Plus(Set(Digits))>>),
          Cat(<<Opt(Lit(<<" ">>)), Plus(Set(Alphabet \ (Spaces \cup Letters \cup Digits)))>>),
          Cat(<<Plus(Set(Spaces)), NotAhead(Set(Alphabet \ Spaces))>>),
          Plus(Set(Spaces))>>)

\* encoding.go:15-16, abbreviated: the literal of a special token keeps its
\* shape, <|name|>, and the two have different lengths as in the source
EndOfText == <<"<", "e", ">">>
FIMPrefix == <<"<", "f", "p", ">">>

\* encoding.go:148 (p50k_edit), reduced to two of its four special tokens
SpecialTokens == (EndOfText :> 50256) @@ (FIMPrefix :> 50281)

\* a rank table over the bytes of the alphabet: every single byte, and some merges
MergeableRanks ==
    (<<"a">> :> 0) @@ (<<"e">> :> 1) @@ (<<"f">> :> 2) @@ (<<"p">> :> 3)
    @@ (<<"s">> :> 4) @@ (<<"C3">> :> 5) @@ (<<"A9">> :> 6) @@ (<<"1">> :> 7)
    @@ (<<" ">> :> 8) @@ (<<"<">> :> 9) @@ (<<">">> :> 10) @@ (<<"'">> :> 11)
    @@ (<<"a", "a">> :> 12) @@ (<<" ", "a">> :> 13) @@ (<<"a", "a", "a">> :> 14)
    @@ (<<"'", "s">> :> 15) @@ (<<"<", "e">> :> 16) @@ (<<"1", "1">> :> 17)
    @@ (<<" ", " ">> :> 18) @@ (<<"e", ">">> :> 19) @@ (<<"<", "<">> :> 20)
    @@ (<<"a", "C3", "A9">> :> 21)

\* The byte-pair merge of one chunk (its source file is not part of the sources
\* at hand): start from single-byte parts and repeatedly merge the adjacent pair
\* whose concatenation has the lowest rank in the table, the leftmost on ties,
\* until no adjacent pair's concatenation is in the table.
RECURSIVE mergeParts(_, _)
mergeParts(parts, ranks) ==
    LET cands == {i \in 1..(Len(parts) - 1) : (parts[i] \o parts[i + 1]) \in DOMAIN ranks}
        rk(i) == ranks[parts[i] \o parts[i + 1]]
    IN IF cands = {} THEN parts
       ELSE LET best == CHOOSE i \in cands :
                            \A j \in cands : rk(i) < rk(j) \/ (rk(i) = rk(j) /\ i <= j)
            IN mergeParts([k \in 1..(Len(parts) - 1) |->
                              IF k < best THEN parts[k]
                              ELSE IF k = best THEN parts[best] \o parts[best + 1]
                              ELSE parts[k + 1]], ranks)

bytePairEncode(piece, ranks) ==
    LET parts == mergeParts([k \in DOMAIN piece |-> <<piece[k]>>], ranks)
    IN [k \in DOMAIN parts |-> ranks[parts[k]]]

\* the sequences that list the elements of a set once each, in any order
RECURSIVE Orders(_)
Orders(S) ==
    IF S = {} THEN {<<>>}
    ELSE UNION {{<<x>> \o o : o \in Orders(S \ {x})} : x \in S}

\* regexp.QuoteMeta'd literals joined by "|"; no literal gives the empty pattern
literalsRegex(strs) ==
    IF strs = <<>> THEN Cat(<<>>) ELSE Alt([k \in DOMAIN strs |-> Lit(strs[k])])

\* a Go map read: the zero value for a missing key
mapGet(m, key, zero) == IF key \in DOMAIN m THEN m[key] ELSE zero

Inverse(m) == [v \in {m[k] : k \in DOMAIN m} |-> CHOOSE k \in DOMAIN m : m[k] = v]

\* core.go:26-72; order is the order in which `range specialTokensEncoder`
\* happened to visit the keys
NewEncoder(encoder, specialTokensEncoder, pattern, order) ==
    [encoder |-> encoder,
     decoder |-> Inverse(encoder),
     specialTokensEncoder |-> specialTokensEncoder,
     specialTokensDecoder |-> Inverse(specialTokensEncoder),
     splitRegex |-> pattern,
     specialRegex |-> literalsRegex(order)]

\* (every chunk handed to the byte-pair merge, the table not asked first)
RECURSIVE encodeChunksNoLookup(_, _, _, _)
encodeChunksNoLookup(enc, span, mats, k) ==
    IF k > Len(mats) THEN <<>>
    ELSE bytePairEncode(TextBytes(cutRunes(span, mats[k][1], mats[k][2])), enc.encoder)
         \o encodeChunksNoLookup(enc, span, mats, k + 1)

\* core.go:104-114, the tokens of the chunks of one ordinary span
RECURSIVE encodeChunks(_, _, _, _)
encodeChunks(enc, span, mats, k) ==
    IF k > Len(mats) THEN <<>>
    ELSE LET piece == TextBytes(cutRunes(span, mats[k][1], mats[k][2]))
             tokens == IF piece \in DOMAIN enc.encoder THEN <<enc.encoder[piece]>>
                       ELSE bytePairEncode(piece, enc.encoder)
         IN tokens \o encodeChunks(enc, span, mats, k + 1)

encodeSpan(enc, span) ==
    encodeChunks(enc, span, findAllMatchIndices(span, enc.splitRegex), 1)

\* (the search stopping at the first special token, allowed or not)
nextSpecialAny(enc, textRunes, allowedSpecial, startFind) ==
    findMatchIndex(cutRunes(textRunes, startFind, Len(textRunes)), enc.specialRegex)

\* core.go:85-97, the search for the next allowed special token from startFind:
\* the match indices relative to the last startFind, or <<>>
RECURSIVE nextAllowedSpecial(_, _, _, _)
nextAllowedSpecial(enc, textRunes, allowedSpecial, startFind) ==
    LET temp == cutRunes(textRunes, startFind, Len(textRunes))
        nextSpecial == findMatchIndex(temp, enc.specialRegex)
    IN IF nextSpecial = <<>> THEN <<>>
       ELSE LET token == cutRunes(textRunes, startFind + nextSpecial[1],
                                  startFind + nextSpecial[2])
            IN IF token \in allowedSpecial THEN nextSpecial
               ELSE nextAllowedSpecial(enc, textRunes, allowedSpecial,
                                       startFind + nextSpecial[2])

\* core.go:82-125, the outer loop from start on
RECURSIVE encodeFrom(_, _, _, _)
encodeFrom(enc, textRunes, allowedSpecial, start) ==
    LET nextSpecial == nextAllowedSpecial(enc, textRunes, allowedSpecial, start)
        end == IF nextSpecial # <<>> THEN start + nextSpecial[1] ELSE Len(textRunes)
        ordinary == encodeSpan(enc, cutRunes(textRunes, start, end))
    IN IF nextSpecial = <<>> THEN ordinary
       ELSE LET temp == cutRunes(textRunes, start + nextSpecial[1], start + nextSpecial[2])
                token == mapGet(enc.specialTokensEncoder, temp, 0)
            IN ordinary \o <<token>>
               \o encodeFrom(enc, textRunes, allowedSpecial, start + nextSpecial[2])

\* core.go:74-128
encode(enc, text, allowedSpecial) == encodeFrom(enc, text, allowedSpecial, 0)

\* core.go:130-143
encodeOrdinary(enc, text) == encodeSpan(enc, text)

\* core.go:145-157: the bytes of the tokens
RECURSIVE decode(_, _)
decode(enc, tokens) ==
    IF tokens = <<>> THEN <<>>
    ELSE LET token == Head(tokens)
             tokenBytes == IF token \in DOMAIN enc.decoder THEN enc.decoder[token]
                           ELSE TextBytes(mapGet(enc.specialTokensDecoder, token, <<>>))
         IN tokenBytes \o decode(enc, Tail(tokens))

----------------------------------------------------------------------------
(***************************************************************************)
(* BPETokenizer                                                            *)
(***************************************************************************)

\* the string "all"
All == <<"a", "l", "l">>

\* encoding.go:167-181: the tokenizer NewEncoderByName builds
newBPETokenizer(encoder, definition) ==
    [status |-> "ok", encoder |-> encoder, definition |-> definition,
     specialTokensSet |-> DOMAIN definition.SpecialTokens]

\* encoding.go:200-210
allowedSpecialSet(tok, allowedSpecial) ==
    IF Len(allowedSpecial) = 0 THEN {}
    ELSE IF Len(allowedSpecial) = 1 /\ allowedSpecial[1] = All THEN tok.specialTokensSet
    ELSE SeqToSet(allowedSpecial)

\* encoding.go:258-266
difference(setA, setB) == setA \ setB

\* encoding.go:212-218
disallowedSpecialSet(tok, allowedSpecial, disallowedSpecial) ==
    IF Len(disallowedSpecial) = 1 /\ disallowedSpecial[1] = All
    THEN difference(tok.specialTokensSet, allowedSpecialSet(tok, allowedSpecial))
    ELSE SeqToSet(disallowedSpecial)

\* encoding.go:250-256: the matched text, empty when nothing matches
findMatch(text, reg) ==
    LET m == FindFrom(reg, text, 0) IN
    IF m = <<>> THEN <<>> ELSE SubSeq(text, m[1] + 1, m[2])

\* how Encode reports a disallowed special token (encoding.go:224)
disallowedOutcome(m) == [status |-> "panic", tokens |-> <<>>, token |-> m]

\* encoding.go:199-230; order is the order in which specialTokenRegex's
\* `range disallowedSpecialSet` visits the set
BPEEncode(tok, text, allowedSpecial, disallowedSpecial, order) ==
    LET allowed == allowedSpecialSet(tok, allowedSpecial)
        m == IF order = <<>> THEN <<>> ELSE findMatch(text, literalsRegex(order))
    IN IF m # <<>> THEN disallowedOutcome(m)
       ELSE [status |-> "ok", tokens |-> encode(tok.encoder, text, allowed), token |-> <<>>]

----------------------------------------------------------------------------
(***************************************************************************)
(* The BPE specification: one tokenizer, one call at a time                *)
(***************************************************************************)

MaxAtoms == 3

\* texts are built from these pieces, so that special-token literals occur in them
SpecialAtoms == {<<"a">>, <<" ">>, <<"<">>, EndOfText, FIMPrefix}
BPEAtoms == SpecialAtoms \cup {<<"1">>, <<"'", "s">>, <<"é">>}

RECURSIVE AtomTexts(_, _)
AtomTexts(atoms, n) ==
    IF n = 0 THEN {<<>>}
    ELSE LET shorter == AtomTexts(atoms, n - 1) IN
         shorter \cup {t \o a : t \in shorter, a \in atoms}

\* the texts given to EncodeOrdinary, and those given to Encode
BPETexts == AtomTexts(BPEAtoms, MaxAtoms)
SpecialTexts == AtomTexts(SpecialAtoms, MaxAtoms)

AllowedLists == {<<>>, <<All>>, <<FIMPrefix>>}
DisallowedLists == {<<>>, <<All>>, <<EndOfText>>}

\* encoding.go:139-150
p50kEdit ==
    [Name |-> "p50k_edit", PatStr |-> P50kPat, MergeableRanks |-> MergeableRanks,
     SpecialTokens |-> SpecialTokens, ExplicitNVocab |-> 0]

\* encoding.go:152-164
r50kBase ==
    [Name |-> "r50k_base", PatStr |-> P50kPat, MergeableRanks |-> MergeableRanks,
     SpecialTokens |-> (EndOfText :> 50256), ExplicitNVocab |-> 50257]

Definitions == {p50kEdit, r50kBase}

\* encoding.go:167-181, for a definition already at hand
NewEncoderByName(def, order) ==
    newBPETokenizer(NewEncoder(def.MergeableRanks, def.SpecialTokens, def.PatStr, order), def)

InitBPE ==
    /\ FnIdle
    /\ PQIdle
    /\ SPMIdle
    /\ CacheIdle
    /\ \E def \in Definitions : \E order \in Orders(DOMAIN def.SpecialTokens) :
          bpeTok = NewEncoderByName(def, order)
    /\ bpeCall = IdleCall

\* BPETokenizer.Encode(text, allowedSpecial, disallowedSpecial)
TokEncode(text, allowedSpecial, disallowedSpecial) ==
    /\ bpeTok.status = "ok"
    /\ bpeCall.pc = "idle"
    /\ \E order \in Orders(disallowedSpecialSet(bpeTok, allowedSpecial, disallowedSpecial)) :
          bpeCall' = [pc |-> "returned", op |-> "Encode", text |-> text,
                      allowedSpecial |-> allowedSpecial,
                      disallowedSpecial |-> disallowedSpecial,
                      out |-> BPEEncode(bpeTok, text, allowedSpecial, disallowedSpecial, order)]
    /\ UNCHANGED <<bpeTok, notBPE>>

\* BPETokenizer.EncodeOrdinary(text)
TokEncodeOrdinary(text) ==
    /\ bpeTok.status = "ok"
    /\ bpeCall.pc = "idle"
    /\ bpeCall' = [pc |-> "returned", op |-> "EncodeOrdinary", text |-> text,
                   allowedSpecial |-> <<>>, disallowedSpecial |-> <<>>,
                   out |-> [status |-> "ok", tokens |-> encodeOrdinary(bpeTok.encoder, text),
                            token |-> <<>>]]
    /\ UNCHANGED <<bpeTok, notBPE>>

\* BPETokenizer.Decode of the tokens the call returned
TokDecode ==
    /\ bpeCall.pc = "returned"
    /\ bpeCall.out.status = "ok"
    /\ bpeCall' = [bpeCall EXCEPT !.pc = "decoded",
                                  !.out.status = "decoded",
                                  !.out.token = decode(bpeTok.encoder, bpeCall.out.tokens)]
    /\ UNCHANGED <<bpeTok, notBPE>>

NextBPE ==
    \/ \E text \in SpecialTexts, al \in AllowedLists, dl \in DisallowedLists :
          TokEncode(text, al, dl)
    \/ \E text \in BPETexts : TokEncodeOrdinary(text)
    \/ TokDecode

SpecBPE == InitBPE /\ [][NextBPE]_vars

----------------------------------------------------------------------------
(***************************************************************************)
(* Properties of the BPE engine                                            *)
(***************************************************************************)

\* lit occurs in text at position p (runes before it)
OccursAt(text, lit, p) == p + Len(lit) <= Len(text) /\ SubSeq(text, p + 1, p + Len(lit)) = lit

Occurrences(text, lit) == {p \in 0..Len(text) : OccursAt(text, lit, p)}

Count(tokens, id) == Cardinality({k \in DOMAIN tokens : tokens[k] = id})

CallDisallowed ==
    disallowedSpecialSet(bpeTok, bpeCall.allowedSpecial, bpeCall.disallowedSpecial)

Returned(op) == bpeCall.pc = "returned" /\ bpeCall.op = op

\* C1: Encode on a text that holds a literal of the effective disallowed set reports
\* it as an error value returned to the caller (not as an abort), and produces no token.
C1_DisallowedIsErrorValue ==
    (Returned("Encode")
       /\ \E d \in CallDisallowed : d # <<>> /\ Occurrences(bpeCall.text, d) # {})
    => (bpeCall.out.status = "error" /\ bpeCall.out.tokens = <<>>)

\* the tokenization the contract describes: the spans between consecutive
\* occurrences of allowed special tokens, tokenized as ordinary text, interleaved
\* with the ids of those occurrences
RECURSIVE RefEncode(_, _, _)
RefEncode(enc, text, allowed) ==
    LET hits == {p \in 0..Len(text) :
                    \E sp \in allowed \cap DOMAIN enc.specialTokensEncoder :
                        sp # <<>> /\ OccursAt(text, sp, p)}
    IN IF hits = {} THEN encodeOrdinary(enc, text)
       ELSE LET p == CHOOSE q \in hits : \A r \in hits : q <= r
                sp == CHOOSE x \in allowed \cap DOMAIN enc.specialTokensEncoder :
                          x # <<>> /\ OccursAt(text, x, p)
            IN encodeOrdinary(enc, SubSeq(text, 1, p))
               \o <<enc.specialTokensEncoder[sp]>>
               \o RefEncode(enc, Drop(text, p + Len(sp)), allowed)

\* C2: with nothing disallowed, Encode's output is the ordinary tokenization of the
\* spans between allowed special tokens interleaved with their ids; special tokens
\* that are not allowed stay inside the spans as ordinary text.
C2_SpansAndSpecials ==
    (Returned("Encode") /\ bpeCall.out.status = "ok") =>
        bpeCall.out.tokens =
            RefEncode(bpeTok.encoder, bpeCall.text,
                      allowedSpecialSet(bpeTok, bpeCall.allowedSpecial))

\* C3: for a special token in the allowed set, each literal occurrence in the text
\* contributes exactly one output id, the token's registered id.
C3_AllowedTokenOneID ==
    (Returned("Encode") /\ bpeCall.out.status = "ok") =>
        \A sp \in allowedSpecialSet(bpeTok, bpeCall.allowedSpecial)
                    \cap DOMAIN bpeTok.encoder.specialTokensEncoder :
            Count(bpeCall.out.tokens, bpeTok.encoder.specialTokensEncoder[sp])
                = Cardinality(Occurrences(bpeCall.text, sp))

HasSpecialLiteral(text) ==
    \E sp \in DOMAIN bpeTok.encoder.specialTokensEncoder : Occurrences(text, sp) # {}

----------------------------------------------------------------------------
(***************************************************************************)
(* The definition cache: goroutines calling NewEncoderByName concurrently  *)
(***************************************************************************)

MaxCalls == 2

EncodingNames == {"p50k_edit", "r50k_base", "gpt2"}

NilDef == 0

\* encoding.go:47,57: `def, ok := definitionCache[encodingName]`
cacheLookup(cache, encodingName) ==
    IF encodingName \in DOMAIN cache
    THEN [def |-> cache[encodingName], ok |-> TRUE]
    ELSE [def |-> NilDef, ok |-> FALSE]

\* (construction without looking at the cache again under the write lock)
recheckSkipped(cache, encodingName) == [def |-> NilDef, ok |-> FALSE]

\* encoding.go:56-59: the second look at the cache, under the write lock
recheck(cache, encodingName) == cacheLookup(cache, encodingName)

\* part_015:10-11, the sentinel; an error value is the chain of the errors it wraps,
\* outermost first, each named by the errors.New / fmt.Errorf that made it
ErrEncodingNotFound == "encoding not found"

\* encoding.go:82, errors.New("unknown encoding: " + encodingName)
unknownEncodingError == <<"unknown encoding">>

\* fmt.Errorf("...: %w", err)
wrapError(msg, err) == <<msg>> \o err

\* errors.Is(err, target)
errorsIs(err, target) == \E k \in DOMAIN err : err[k] = target

\* encoding.go:69-84: the names initDefinition knows
initDefinition(encodingName) ==
    IF \E def \in Definitions : def.Name = encodingName
    THEN [ok |-> TRUE, def |-> CHOOSE def \in Definitions : def.Name = encodingName,
          err |-> <<>>]
    ELSE [ok |-> FALSE, def |-> NilDef, err |-> unknownEncodingError]

InitCache ==
    /\ FnIdle
    /\ PQIdle
    /\ SPMIdle
    /\ BPEIdle
    /\ definitionCache = <<>>
    /\ mu = MuFree
    /\ getters = [t \in Threads |-> IdleGetter]
    /\ defObjects = <<>>

\* NewEncoderByName(encodingName) enters getDefinition
CallGetDefinition(t, encodingName) ==
    /\ getters[t].pc = "idle"
    /\ getters[t].calls < MaxCalls
    /\ getters' = [getters EXCEPT ![t] =
                      [pc |-> "RLock", calls |-> getters[t].calls + 1,
                       received |-> getters[t].received, failed |-> getters[t].failed,
                       encodingName |-> encodingName,
                       def |-> NilDef, ok |-> FALSE, path |-> "fast", err |-> <<>>]]
    /\ UNCHANGED <<definitionCache, mu, defObjects, notCache>>

\* encoding.go:46
RLock(t) ==
    /\ getters[t].pc = "RLock"
    /\ mu.writer = 0
    /\ mu' = [mu EXCEPT !.readers = @ \cup {t}]
    /\ getters' = [getters EXCEPT ![t].pc = "read"]
    /\ UNCHANGED <<definitionCache, defObjects, notCache>>

\* encoding.go:47
ReadCache(t) ==
    /\ getters[t].pc = "read"
    /\ LET r == cacheLookup(definitionCache, getters[t].encodingName) IN
       getters' = [getters EXCEPT ![t].pc = "RUnlock", ![t].def = r.def, ![t].ok = r.ok]
    /\ UNCHANGED <<definitionCache, mu, defObjects, notCache>>

\* encoding.go:48-51
RUnlock(t) ==
    /\ getters[t].pc = "RUnlock"
    /\ mu' = [mu EXCEPT !.readers = @ \ {t}]
    /\ getters' = [getters EXCEPT ![t].pc = IF getters[t].ok THEN "return" ELSE "Lock"]
    /\ UNCHANGED <<definitionCache, defObjects, notCache>>

\* encoding.go:53
Lock(t) ==
    /\ getters[t].pc = "Lock"
    /\ mu.writer = 0
    /\ mu.readers = {}
    /\ mu' = [mu EXCEPT !.writer = t]
    /\ getters' = [getters EXCEPT ![t].pc = "recheck"]
    /\ UNCHANGED <<definitionCache, defObjects, notCache>>

\* encoding.go:56-59
Recheck(t) ==
    /\ getters[t].pc = "recheck"
    /\ LET r == recheck(definitionCache, getters[t].encodingName) IN
       getters' = [getters EXCEPT ![t].pc = IF r.ok THEN "Unlock" ELSE "init",
                                  ![t].def = r.def, ![t].ok = r.ok,
                                  ![t].path = IF r.ok THEN "recheck" ELSE "built"]
    /\ UNCHANGED <<definitionCache, mu, defObjects, notCache>>

\* encoding.go:61-64, initDefinition allocates the Definition and starts to fill it;
\* an unknown name is an error and nothing is cached
InitDefinitionBegin(t) ==
    /\ getters[t].pc = "init"
    /\ LET r == initDefinition(getters[t].encodingName) IN
       IF r.ok
       THEN /\ defObjects' = Append(defObjects,
                                    [Name |-> getters[t].encodingName, complete |-> FALSE])
            /\ getters' = [getters EXCEPT ![t].pc = "building",
                                          ![t].def = Len(defObjects) + 1]
       ELSE /\ defObjects' = defObjects
            /\ getters' = [getters EXCEPT ![t].pc = "Unlock", ![t].def = NilDef,
                                          ![t].path = "error", ![t].err = r.err]
    /\ UNCHANGED <<definitionCache, mu, notCache>>

\* encoding.go:61, initDefinition returns: the rank table and the pattern are in place
InitDefinitionEnd(t) ==
    /\ getters[t].pc = "building"
    /\ defObjects' = [defObjects EXCEPT ![getters[t].def].complete = TRUE]
    /\ getters' = [getters EXCEPT ![t].pc = "store", ![t].ok = TRUE]
    /\ UNCHANGED <<definitionCache, mu, notCache>>

\* encoding.go:65
StoreDefinition(t) ==
    /\ getters[t].pc = "store"
    /\ definitionCache' = (getters[t].encodingName :> getters[t].def) @@ definitionCache
    /\ getters' = [getters EXCEPT ![t].pc = "Unlock"]
    /\ UNCHANGED <<mu, defObjects, notCache>>

\* encoding.go:54, the deferred mu.Unlock()
Unlock(t) ==
    /\ getters[t].pc = "Unlock"
    /\ mu.writer = t
    /\ mu' = [mu EXCEPT !.writer = 0]
    /\ getters' = [getters EXCEPT ![t].pc = "return"]
    /\ UNCHANGED <<definitionCache, defObjects, notCache>>

\* encoding.go:168-172: getDefinition has returned; NewEncoderByName reads the
\* definition's rank table, special tokens and pattern, or returns the error, which
\* NewBPETokenizerByEncoding (part_016:47-52) wraps and returns with a nil Tokenizer
NewEncoderByNameReturn(t) ==
    /\ getters[t].pc = "return"
    /\ getters' = [getters EXCEPT ![t] =
          [pc |-> "idle", calls |-> getters[t].calls,
           received |-> getters[t].received \cup
               (IF getters[t].ok
                THEN {[encodingName |-> getters[t].encodingName, def |-> getters[t].def,
                       path |-> getters[t].path,
                       complete |-> defObjects[getters[t].def].complete]}
                ELSE {}),
           failed |-> getters[t].failed \cup
               (IF getters[t].ok THEN {}
                ELSE {[encodingName |-> getters[t].encodingName, tokenizer |-> NilDef,
                       err |-> wrapError("getting encoding", getters[t].err)]})]]
    /\ UNCHANGED <<definitionCache, mu, defObjects, notCache>>

NextCache ==
    \/ \E t \in Threads, encodingName \in EncodingNames : CallGetDefinition(t, encodingName)
    \/ \E t \in Threads : RLock(t)
    \/ \E t \in Threads : ReadCache(t)
    \/ \E t \in Threads : RUnlock(t)
    \/ \E t \in Threads : Lock(t)
    \/ \E t \in Threads : Recheck(t)
    \/ \E t \in Threads : InitDefinitionBegin(t)
    \/ \E t \in Threads : InitDefinitionEnd(t)
    \/ \E t \in Threads : StoreDefinition(t)
    \/ \E t \in Threads : Unlock(t)
    \/ \E t \in Threads : NewEncoderByNameReturn(t)

SpecCache == InitCache /\ [][NextCache]_vars

Constructed(encodingName) ==
    {p \in DOMAIN defObjects : defObjects[p].Name = encodingName}

Received == UNION {getters[t].received : t \in Threads}

\* C8: under every interleaving of getDefinition calls, a definition is constructed
\* at most once per encoding name, every caller of a name receives that one
\* definition, and a definition a caller receives has been completely built.
C8_ConstructedOnce ==
    /\ \A encodingName \in EncodingNames : Cardinality(Constructed(encodingName)) <= 1
    /\ \A r \in Received :
          /\ r.complete
          /\ Constructed(r.encodingName) = {r.def}
          /\ definitionCache[r.encodingName] = r.def

\* two goroutines asked for one name before it was cached: one built it, the other
\* waited for the write lock and found it on the second look
C8_Witness ==
    \E r1 \in getters[1].received, r2 \in getters[2].received :
        /\ r1.encodingName = r2.encodingName
        /\ r1.def = r2.def
        /\ {r1.path, r2.path} = {"built", "recheck"}

----------------------------------------------------------------------------
(***************************************************************************)
(* Two goroutines calling Encode and Decode on one Processor               *)
(***************************************************************************)

MaxConcLen == 3

ConcRunes == {<<97>>, <<98>>}

RECURSIVE ConcTextsUpTo(_)
ConcTextsUpTo(n) ==
    IF n = 0 THEN {<<>>}
    ELSE LET shorter == ConcTextsUpTo(n - 1) IN
         shorter \cup {t \o r : t \in shorter, r \in ConcRunes}

ConcTexts == ConcTextsUpTo(MaxConcLen)

ConcModels == {TiesModel, UserDefinedModel}

InitConc ==
    /\ FnIdle
    /\ PQIdle
    /\ BPEIdle
    /\ CacheIdle
    /\ \E mp \in ConcModels : spmProc = NewProcessor(mp)
    /\ calls = [t \in Threads |-> IdleCall]
    /\ protoReader = NoReader

NextConc ==
    \/ \E t \in Threads, text \in ConcTexts : Encode(t, text)
    \/ \E t \in Threads : MergeStep(t)
    \/ \E t \in Threads : Materialize(t)
    \/ \E t \in Threads : DecodeCall(t)

SpecConc == InitConc /\ [][NextConc]_vars

\* the merge loop run to its end with no other goroutine around
RECURSIVE runLoop(_, _)
runLoop(proc, c) ==
    IF c.pc = "merge" /\ Len(c.mergeQueue) > 0
    THEN runLoop(proc, mergeIteration(proc, c))
    ELSE c

RunAlone(proc, text) ==
    LET c == runLoop(proc, encodeStart(proc, text)) IN
    IF c.pc = "merge" THEN materialize(proc, c.symList, 0) ELSE <<>>

AsRunAlone(t) ==
    /\ calls[t].pc = "done" => calls[t].tokens = RunAlone(spmProc, calls[t].input)
    /\ calls[t].pc = "decoded" =>
          /\ calls[t].tokens = RunAlone(spmProc, calls[t].input)
          /\ calls[t].decoded = Decode(spmProc, tokenIDs(calls[t].tokens))
    /\ calls[t].pc = "merge" =>
          runLoop(spmProc, calls[t]) = runLoop(spmProc, encodeStart(spmProc, calls[t].input))

OwnStateOnly ==
    /\ spmProc' = spmProc
    /\ \A t \in Threads : calls'[t] # calls[t] => \A u \in Threads \ {t} : calls'[u] = calls[u]

----------------------------------------------------------------------------
(***************************************************************************)
(* Repeated calls: both engines, one call at a time                        *)
(***************************************************************************)

InitDet == InitSPM \/ InitBPE

NextDet == NextSPM \/ NextBPE

SpecDet == InitDet /\ [][NextDet]_vars

\* the queued candidates that no queued candidate outranks: whatever the layout of
\* the heap, PopMax returns one of them
Maxima(q) == {q[k] : k \in {k \in DOMAIN q : \A j \in DOMAIN q : mergeCmp(q[j], q[k]) <= 0}}

NextMergeDetermined(c) ==
    Cardinality({m \in Maxima(c.mergeQueue) : ~candidateIsDead(c.symList, m)}) <= 1

\* Encode of the same arguments on a tokenizer built from the same definition, for
\* every order in which the maps of special tokens can be iterated
SameForEveryOrder ==
    \A eo \in Orders(DOMAIN bpeTok.definition.SpecialTokens) :
        \A o \in Orders(CallDisallowed) :
            LET again == BPEEncode(NewEncoderByName(bpeTok.definition, eo), bpeCall.text,
                                   bpeCall.allowedSpecial, bpeCall.disallowedSpecial, o)
            IN again.status = bpeCall.out.status /\ again.tokens = bpeCall.out.tokens

\* C10: Encode of a text on an engine returns the same ids every time: in the
\* SentencePiece merge loop the live candidate to merge next is the same for every
\* heap layout, and a BPE Encode returns the same ids for every iteration order of
\* the special-token maps.
C10_Deterministic ==
    /\ \A t \in Threads : InLoop(calls[t]) => NextMergeDetermined(calls[t])
    /\ Returned("Encode") => SameForEveryOrder

\* a merge has been applied and two live candidates of equal score are queued
C10_Witness ==
    \E t \in Threads :
        /\ InLoop(calls[t])
        /\ calls[t].applied > 0
        /\ \E i, j \in DOMAIN calls[t].mergeQueue :
              /\ calls[t].mergeQueue[i].left # calls[t].mergeQueue[j].left
              /\ calls[t].mergeQueue[i].score = calls[t].mergeQueue[j].score
              /\ ~candidateIsDead(calls[t].symList, calls[t].mergeQueue[i])
              /\ ~candidateIsDead(calls[t].symList, calls[t].mergeQueue[j])

----------------------------------------------------------------------------
(***************************************************************************)
(* Loading a model: NewProcessor on the data of a reader                   *)
(***************************************************************************)

MaxPieces == 3

unk2Text == <<60, 117, 50, 62>>

\* the pieces model files are built from; the full byte table is appended or not
LoadPieces ==
    {Piece(unkText, 0, "UNKNOWN"), Piece(unk2Text, 0, "UNKNOWN"),
     Piece(<<97>>, 0, "NORMAL"), Piece(ctlText, 0, "CONTROL"),
     Piece(bytePieceText(97), 0, "BYTE")}

RECURSIVE PieceLists(_)
PieceLists(n) ==
    IF n = 0 THEN {<<>>}
    ELSE LET shorter == PieceLists(n - 1) IN
         shorter \cup {l \o <<p>> : l \in shorter, p \in LoadPieces}

OptionalBool == {"unset", "true", "false"}

NormalizerSpecs ==
    {[present |-> FALSE, addDummyPrefix |-> "unset", removeExtraWhitespaces |-> "unset"]}
    \cup [present : {TRUE}, addDummyPrefix : OptionalBool,
          removeExtraWhitespaces : OptionalBool]

LoadProtos ==
    {[modelType |-> mt, byteFallback |-> bf, normalizer |-> ns,
      unkSurface |-> defaultUnkSurface, pieces |-> l \o tail] :
        mt \in {"BPE", "UNIGRAM"}, bf \in BOOLEAN, ns \in NormalizerSpecs,
        l \in PieceLists(MaxPieces), tail \in {<<>>, bytePieces}}

\* what the reader gives: a read error, bytes that are no ModelProto, or a ModelProto
Readers ==
    {[kind |-> "unreadable"], [kind |-> "corrupt"]}
    \cup {[kind |-> "proto", mp |-> mp] : mp \in LoadProtos}

\* processor.go:40-51 and then the rest of NewProcessor
NewProcessorFromReader(r) ==
    IF r.kind = "unreadable" THEN ProcFailed("error", "unable to read protobuf data")
    ELSE IF r.kind = "corrupt" THEN ProcFailed("error", "unable to unmarshal protobuf")
    ELSE NewProcessor(r.mp)

InitLoad ==
    /\ FnIdle
    /\ PQIdle
    /\ SPMIdle
    /\ BPEIdle
    /\ CacheIdle

\* NewProcessor(protoReader)
Load(r) ==
    /\ protoReader = NoReader
    /\ protoReader' = r
    /\ spmProc' = NewProcessorFromReader(r)
    /\ UNCHANGED <<calls, notSPM>>

NextLoad == \E r \in Readers : Load(r)

SpecLoad == InitLoad /\ [][NextLoad]_vars

UnknownPieces(mp) == {i \in DOMAIN mp.pieces : mp.pieces[i].type = "UNKNOWN"}

LoadedProto == protoReader.kind = "proto"

\* C11: a model loads only if its piece list has exactly one UNKNOWN piece: with
\* none or with several, wherever they stand, NewProcessor fails.
C11_ExactlyOneUnknown ==
    (LoadedProto /\ spmProc.status = "ok") =>
        Cardinality(UnknownPieces(protoReader.mp)) = 1

\* what makes a model definition unloadable
Unloadable(r) ==
    \/ r.kind \in {"unreadable", "corrupt"}
    \/ r.mp.modelType # "BPE"
    \/ r.mp.normalizer.addDummyPrefix = "true"
    \/ r.mp.normalizer.removeExtraWhitespaces = "true"
    \/ Cardinality(UnknownPieces(r.mp)) = 0
    \/ \E i \in DOMAIN r.mp.pieces : r.mp.pieces[i].type = "BYTE" /\ ~r.mp.byteFallback
    \/ r.mp.byteFallback /\ \E b \in ByteUniverse :
          \A i \in DOMAIN r.mp.pieces : ~(isBytePiece(r.mp.pieces[i])
                                           /\ convertHexValue(r.mp.pieces[i].piece) = b)

\* C12: NewProcessor reports every load-time failure as a returned error with no
\* processor; for no model definition, one without a normalizer section or with
\* unset normalizer flags included, does loading abort.
C12_LoadFailuresAreErrors ==
    protoReader # NoReader =>
        /\ spmProc.status \in {"ok", "error"}
        /\ Unloadable(protoReader) => spmProc.status = "error"

----------------------------------------------------------------------------
(***************************************************************************)
(* Further properties of the two engines                                   *)
(***************************************************************************)

\* C13: Encode of the empty text returns no token, on every BPE encoding and on
\* every loaded SentencePiece model, with byte-fallback or without.
C13_EmptyTextNoTokens ==
    /\ \A t \in Threads :
          (calls[t].pc = "done" /\ calls[t].input = <<>>) => calls[t].tokens = <<>>
    /\ (bpeCall.pc = "returned" /\ bpeCall.text = <<>>) =>
          (bpeCall.out.status = "ok" /\ bpeCall.out.tokens = <<>>)

\* C14: EncodeOrdinary(text) returns what Encode(text) returns with no allowed and
\* no disallowed special token: every position is plain text, special-token
\* literals included.
C14_OrdinaryIsEncodeWithoutSpecials ==
    (Returned("Encode") /\ bpeCall.allowedSpecial = <<>> /\ bpeCall.disallowedSpecial = <<>>)
    => /\ bpeCall.out.status = "ok"
       /\ bpeCall.out.tokens = encodeOrdinary(bpeTok.encoder, bpeCall.text)

\* such a call on a text with a special-token literal between other characters
C14_Witness ==
    /\ Returned("Encode")
    /\ bpeCall.allowedSpecial = <<>> /\ bpeCall.disallowedSpecial = <<>>
    /\ bpeCall.text = <<"a">> \o FIMPrefix \o <<" ">>
    /\ bpeCall.out.status = "ok"
    /\ Len(bpeCall.out.tokens) > 3

Failed == UNION {getters[t].failed : t \in Threads}

KnownNames == {def.Name : def \in Definitions}

\* C15: a request for a name that is no built-in encoding fails with an error the
\* caller recognises as ErrEncodingNotFound, returns no tokenizer and caches
\* nothing; requests for the built-in names never fail.
C15_EncodingNotFound ==
    /\ \A f \in Failed :
          /\ f.encodingName \notin KnownNames
          /\ f.tokenizer = NilDef
          /\ errorsIs(f.err, ErrEncodingNotFound)
    /\ \A r \in Received : r.encodingName \in KnownNames
    /\ DOMAIN definitionCache \subseteq KnownNames

----------------------------------------------------------------------------
(***************************************************************************)
(* The prefix matcher on its own                                           *)
(***************************************************************************)

MaxVocab == 3
MaxPrefixText == 4

\* ab, abc, z, a two-byte rune, and U+FFFD
TrieWords == {<<97, 98>>, <<97, 98, 99>>, <<122>>, <<195, 177>>, RuneError}

\* the units texts are built from: a, b, c, x, a two-byte rune, a byte that is not UTF-8
TrieUnits == {<<97>>, <<98>>, <<99>>, <<120>>, <<195, 177>>, <<128>>}

RECURSIVE TrieTexts(_)
TrieTexts(n) ==
    IF n = 0 THEN {<<>>}
    ELSE LET shorter == TrieTexts(n - 1) IN
         shorter \cup {t \o u : t \in shorter, u \in TrieUnits}

Vocabs == {v \in SUBSET TrieWords : Cardinality(v) <= MaxVocab}

InitTrie ==
    /\ PQIdle
    /\ SPMIdle
    /\ BPEIdle
    /\ CacheIdle
    /\ \E vocab \in Vocabs : fnCall = [pc |-> "built", vocab |-> vocab,
                                       pm |-> newPrefixMatcher(vocab)]

\* pm.findPrefixLen(text)
FindPrefixLen(text) ==
    /\ fnCall.pc = "built"
    /\ fnCall' = [pc |-> "found", vocab |-> fnCall.vocab, pm |-> fnCall.pm,
                  text |-> text, prefixLen |-> findPrefixLen(fnCall.pm, text)]
    /\ UNCHANGED notFn

NextTrie == \E text \in TrieTexts(MaxPrefixText) : FindPrefixLen(text)

SpecTrie == InitTrie /\ [][NextTrie]_vars

\* the length of the longest member of vocab that text starts with, 0 for none
LongestPrefix(vocab, text) ==
    LET lens == {Len(w) : w \in {v \in vocab : HasPrefix(text, v)}} IN
    IF lens = {} THEN 0 ELSE Max(lens)

\* C16: findPrefixLen(text) is the length in bytes of the longest prefix of text
\* that is a member of the vocabulary, 0 when there is none, and never more than
\* the length of text.
C16_LongestVocabPrefix ==
    fnCall.pc = "found" =>
        /\ fnCall.prefixLen = LongestPrefix(fnCall.vocab, fnCall.text)
        /\ fnCall.prefixLen <= Len(fnCall.text)

----------------------------------------------------------------------------
(***************************************************************************)
(* Further properties of the priority queue                                *)
(***************************************************************************)

Copies(s, e) == Cardinality({i \in DOMAIN s : s[i] = e})

\* C17: RemoveFunc(rm) removes exactly the held elements rm matches: every other
\* element is held as many times as before, no matched element is held, and Len
\* is the number of elements that were not matched.
C17_RemoveFuncExact ==
    pqLast.op = "RemoveFunc" =>
        /\ \A e \in PQElems :
              Copies(items, e) = IF e \in pqLast.rm THEN 0 ELSE Copies(pqLast.before, e)
        /\ Len(items) = Cardinality({i \in DOMAIN pqLast.before :
                                        pqLast.before[i] \notin pqLast.rm})

\* a RemoveFunc on a full queue that removed some elements, not the first one, and
\* left several, one of them twice
C17_Witness ==
    /\ pqLast.op = "RemoveFunc"
    /\ Len(pqLast.before) = MaxQueue
    /\ pqLast.before[1] \notin pqLast.rm
    /\ Len(items) >= 2 /\ Len(items) < Len(pqLast.before)
    /\ \E e \in PQElems : Copies(items, e) = 2

----------------------------------------------------------------------------
(***************************************************************************)
(* The rank-table parser, parseBPERanks, on its own                        *)
(* Strings are sequences of one-character strings.                         *)
(***************************************************************************)

MaxLines == 3

\* strings.Split(s, sep) for a one-character separator: always at least one field
RECURSIVE Split(_, _)
Split(s, sep) ==
    IF \A k \in DOMAIN s : s[k] # sep THEN <<s>>
    ELSE LET k == CHOOSE i \in DOMAIN s : s[i] = sep /\ \A j \in 1..(i - 1) : s[j] # sep
         IN <<SubSeq(s, 1, k - 1)>> \o Split(Drop(s, k), sep)

\* the six-bit values of the base64 characters the inputs use, -1 for any other
b64Value(c) ==
    IF c = "Y" THEN 24 ELSE IF c = "Q" THEN 16 ELSE IF c = "W" THEN 22
    ELSE IF c = "I" THEN 8 ELSE IF c = "J" THEN 9 ELSE IF c = "j" THEN 35 ELSE -1

\* base64.StdEncoding.DecodeString: quanta of four characters, "=" padding only to
\* fill the last quantum, nothing after the padding
RECURSIVE base64Decode(_)
base64Decode(s) ==
    IF s = <<>> THEN [ok |-> TRUE, bytes |-> <<>>]
    ELSE IF Len(s) < 4 THEN [ok |-> FALSE, bytes |-> <<>>]
    ELSE LET v == [k \in 1..4 |-> b64Value(s[k])]
             rest == Drop(s, 4)
         IN IF v[1] < 0 \/ v[2] < 0 THEN [ok |-> FALSE, bytes |-> <<>>]
            ELSE IF s[3] = "=" THEN
                 IF s[4] = "=" /\ rest = <<>>
                 THEN [ok |-> TRUE, bytes |-> <<v[1] * 4 + v[2] \div 16>>]
                 ELSE [ok |-> FALSE, bytes |-> <<>>]
            ELSE IF v[3] < 0 THEN [ok |-> FALSE, bytes |-> <<>>]
            ELSE IF s[4] = "=" THEN
                 IF rest = <<>>
                 THEN [ok |-> TRUE, bytes |-> <<v[1] * 4 + v[2] \div 16,
                                               (v[2] % 16) * 16 + v[3] \div 4>>]
                 ELSE [ok |-> FALSE, bytes |-> <<>>]
            ELSE IF v[4] < 0 THEN [ok |-> FALSE, bytes |-> <<>>]
            ELSE LET more == base64Decode(rest) IN
                 [ok |-> more.ok,
                  bytes |-> IF more.ok
                            THEN <<v[1] * 4 + v[2] \div 16,
                                   (v[2] % 16) * 16 + v[3] \div 4,
                                   (v[3] % 4) * 64 + v[4]>> \o more.bytes
                            ELSE <<>>]

digitValue(c) ==
    IF c = "0" THEN 0 ELSE IF c = "1" THEN 1 ELSE IF c = "2" THEN 2
    ELSE IF c = "3" THEN 3 ELSE -1

RECURSIVE digitsValue(_, _)
digitsValue(s, acc) ==
    IF s = <<>> THEN acc ELSE digitsValue(Tail(s), 10 * acc + digitValue(Head(s)))

\* strconv.Atoi: an optional sign and at least one decimal digit
Atoi(s) ==
    LET signed == s # <<>> /\ Head(s) \in {"+", "-"}
        digits == IF signed THEN Tail(s) ELSE s
    IN IF digits = <<>> \/ \E k \in DOMAIN digits : digitValue(digits[k]) < 0
       THEN [ok |-> FALSE, n |-> 0]
       ELSE [ok |-> TRUE,
             n |-> IF signed /\ Head(s) = "-" THEN 0 - digitsValue(digits, 0)
                   ELSE digitsValue(digits, 0)]

\* (a line that has not two fields taken for an error)
parseLineStrict(line) ==
    LET parts == Split(line, " ") IN
    IF line = <<>> THEN [kind |-> "skip"]
    ELSE IF Len(parts) # 2 THEN [kind |-> "error", err |-> "fields"]
    ELSE LET token == base64Decode(parts[1])
             rank == Atoi(parts[2])
         IN IF ~token.ok THEN [kind |-> "error", err |-> "decoding token"]
            ELSE IF ~rank.ok THEN [kind |-> "error", err |-> "parsing rank"]
            ELSE [kind |-> "entry", token |-> token.bytes, rank |-> rank.n]

\* part_002:27-43, the body of the loop for one line
parseLine(line) ==
    LET parts == Split(line, " ") IN
    IF line = <<>> THEN [kind |-> "skip"]
    ELSE IF Len(parts) # 2 THEN [kind |-> "skip"]
    ELSE LET token == base64Decode(parts[1])
             rank == Atoi(parts[2])
         IN IF ~token.ok THEN [kind |-> "error", err |-> "decoding token"]
            ELSE IF ~rank.ok THEN [kind |-> "error", err |-> "parsing rank"]
            ELSE [kind |-> "entry", token |-> token.bytes, rank |-> rank.n]

\* part_002:25-45, from line k on with the table built so far
RECURSIVE parseLines(_, _, _)
parseLines(lines, k, ranks) ==
    IF k > Len(lines) THEN [status |-> "ok", ranks |-> ranks]
    ELSE LET r == parseLine(lines[k]) IN
         IF r.kind = "error" THEN [status |-> "error", ranks |-> <<>>, err |-> r.err]
         ELSE IF r.kind = "skip" THEN parseLines(lines, k + 1, ranks)
         ELSE parseLines(lines, k + 1, (r.token :> r.rank) @@ ranks)

parseBPERanks(data) == parseLines(Split(data, "\n"), 1, <<>>)

\* the lines data is made of: entries for "a" and "ab", "a" again with another rank,
\* the empty token, and lines with one or three fields, a bad token or a bad rank
RankLines ==
    {<<>>,
     <<"Y", "Q", "=", "=", " ", "1">>,
     <<"Y", "W", "I", "=", " ", "2">>,
     <<"Y", "Q", "=", "=", " ", "3", "0">>,
     <<" ", "3">>,
     <<"Y", "Q", "=", "=">>,
     <<"Y", "Q", "=", "=", " ", "1", " ", "2">>,
     <<"Y", "Q", "=", " ", "1">>,
     <<"Y", "!", "=", "=", " ", "1">>,
     <<"Y", "W", "I", "=", " ", "x">>,
     <<"Y", "W", "J", "j", " ">>}

RECURSIVE JoinLines(_)
JoinLines(ls) ==
    IF Len(ls) = 0 THEN <<>>
    ELSE IF Len(ls) = 1 THEN ls[1]
    ELSE ls[1] \o <<"\n">> \o JoinLines(Tail(ls))

RECURSIVE LineLists(_)
LineLists(n) ==
    IF n = 0 THEN {<<>>}
    ELSE LET shorter == LineLists(n - 1) IN
         shorter \cup {l \o <<x>> : l \in shorter, x \in RankLines}

RankData == {JoinLines(ls) : ls \in LineLists(MaxLines)}

InitParse ==
    /\ PQIdle
    /\ SPMIdle
    /\ BPEIdle
    /\ CacheIdle
    /\ fnCall = IdleCall

\* parseBPERanks(data)
ParseBPERanks(data) ==
    /\ fnCall.pc = "idle"
    /\ fnCall' = [pc |-> "parsed", data |-> data, out |-> parseBPERanks(data)]
    /\ UNCHANGED notFn

NextParse == \E data \in RankData : ParseBPERanks(data)

SpecParse == InitParse /\ [][NextParse]_vars

\* what the fields of the inputs stand for
TokenOf ==
    (<<"Y", "Q", "=", "=">> :> <<97>>) @@ (<<"Y", "W", "I", "=">> :> <<97, 98>>)
    @@ (<<"Y", "W", "J", "j">> :> <<97, 98, 99>>) @@ (<<>> :> <<>>)

RankOf ==
    (<<"1">> :> 1) @@ (<<"2">> :> 2) @@ (<<"3">> :> 3) @@ (<<"3", "0">> :> 30)

SpaceCount(line) == Cardinality({k \in DOMAIN line : line[k] = " "})

FieldsOf(line) ==
    LET k == CHOOSE i \in DOMAIN line : line[i] = " " IN
    <<SubSeq(line, 1, k - 1), Drop(line, k)>>

\* C18: parseBPERanks ignores blank lines and lines that have not exactly two
\* space-separated fields; it fails and returns no table when a two-field line has
\* a token that is not base64 or a rank that is not an integer; otherwise the table
\* maps the decoded token of every two-field line to its rank (the last such line
\* for a token that occurs twice) and holds nothing else.
C18_ParserContract ==
    fnCall.pc = "parsed" =>
        LET lines == Split(fnCall.data, "\n")
            two == {i \in DOMAIN lines : SpaceCount(lines[i]) = 1}
            bad == {i \in two : \/ FieldsOf(lines[i])[1] \notin DOMAIN TokenOf
                                \/ FieldsOf(lines[i])[2] \notin DOMAIN RankOf}
            tok(i) == TokenOf[FieldsOf(lines[i])[1]]
        IN IF bad # {}
           THEN fnCall.out.status = "error" /\ fnCall.out.ranks = <<>>
           ELSE /\ fnCall.out.status = "ok"
                /\ DOMAIN fnCall.out.ranks = {tok(i) : i \in two}
                /\ \A i \in two :
                      (\A j \in two : j > i => tok(j) # tok(i)) =>
                          fnCall.out.ranks[tok(i)] = RankOf[FieldsOf(lines[i])[2]]

\* a table of two entries from data with a blank line and a three-field line
C18_Witness ==
    /\ fnCall.pc = "parsed"
    /\ fnCall.out.status = "ok"
    /\ Cardinality(DOMAIN fnCall.out.ranks) = 2
    /\ LET lines == Split(fnCall.data, "\n") IN
       /\ \E i \in DOMAIN lines : SpaceCount(lines[i]) = 2
       /\ Len(lines) = MaxLines

----------------------------------------------------------------------------
(***************************************************************************)
(* Counter.Count                                                           *)
(* A MethodResult is modelled by its Name, Tokens, IsExact, ContextWindow. *)
(***************************************************************************)

MaxCountText == 3

CountUnits == {"a", " ", "'"}

RECURSIVE CountTexts(_)
CountTexts(n) ==
    IF n = 0 THEN {<<>>}
    ELSE LET shorter == CountTexts(n - 1) IN
         shorter \cup {Append(t, u) : t \in shorter, u \in CountUnits}

\* part_017:37-234: three of the entries of modelRegistry (lines 39, 101, 141)
modelRegistry ==
    ("gpt-5" :> [Encoding |-> "o200k_base", ContextWindow |-> 400000])
    @@ ("gpt-4" :> [Encoding |-> "cl100k_base", ContextWindow |-> 8192])
    @@ ("claude-sonnet-4" :> [Encoding |-> "claude_approx", ContextWindow |-> 200000])

NoMeta == [Encoding |-> "", ContextWindow |-> 0]

\* part_017:238-243; found is `meta != nil`
GetModelMetadata(modelName) ==
    IF modelName \in DOMAIN modelRegistry
    THEN [found |-> TRUE, meta |-> modelRegistry[modelName]]
    ELSE [found |-> FALSE, meta |-> NoMeta]

ModelNames ==
    {"", "gpt-5", "gpt-4", "claude-sonnet-4", "unknown-model-xyz",
     "cl100k_base", "claude_approx", "spm"}

Providers == {"", "all", "openai", "anthropic"}

\* counter.go:285-309, the tokenizers map initializeTokenizers fills: per key the
\* kind of Tokenizer and what its Name() and IsExact() return
initializeTokenizers(vocabFile) ==
    ("o200k_base" :> [kind |-> "bpe", Name |-> "bpe_o200k_base", IsExact |-> TRUE])
    @@ ("cl100k_base" :> [kind |-> "bpe", Name |-> "bpe_cl100k_base", IsExact |-> TRUE])
    @@ ("claude_approx" :> [kind |-> "claude", Name |-> "claude_3_approx", IsExact |-> FALSE])
    @@ (IF vocabFile # ""
        THEN ("spm" :> [kind |-> "spm", Name |-> "spm", IsExact |-> TRUE])
        ELSE <<>>)

\* counter.go:25-46 with the default ratios (4.0 and 0.75)
NewCounter(opts) ==
    [vocabFile |-> opts.VocabFile, provider |-> opts.Provider,
     tokenizers |-> initializeTokenizers(opts.VocabFile)]

CharByte(c) == IF c = "a" THEN 97 ELSE IF c = " " THEN 32 ELSE 39

\* Tokenizer.CountTokens (part_016:62-68,136-139,188-191); no tokenizer returns an
\* error.  The rank tables of o200k_base and cl100k_base and the vocab file are not
\* among the sources: the BPE tokenizers count with the tables of the BPE
\* specification, the SentencePiece tokenizer with the byte-fallback model.
CountTokens(tokenizer, text) ==
    IF tokenizer.kind = "claude" THEN (Len(text) * 10) \div 38
    ELSE IF tokenizer.kind = "bpe"
         THEN Len(encodeOrdinary(NewEncoderByName(r50kBase, <<EndOfText>>).encoder, text))
    ELSE Len(RunAlone(NewProcessor(BytesOnlyModel), [k \in DOMAIN text |-> CharByte(text[k])]))

\* unicode.IsSpace(r) || unicode.IsPunct(r)
isSeparator(c) == c \in {" ", "'"}

\* counter.go:312-332
RECURSIVE countWordsFrom(_, _, _)
countWordsFrom(text, k, inWord) ==
    IF k > Len(text) THEN (IF inWord THEN 1 ELSE 0)
    ELSE IF isSeparator(text[k])
         THEN (IF inWord THEN 1 ELSE 0) + countWordsFrom(text, k + 1, FALSE)
         ELSE countWordsFrom(text, k + 1, TRUE)

countWords(text) == countWordsFrom(text, 1, FALSE)

\* counter.go:335-346
countLines(text) ==
    IF Len(text) = 0 THEN 0
    ELSE Cardinality({k \in DOMAIN text : text[k] = "\n"})
         + (IF text[Len(text)] # "\n" THEN 1 ELSE 0)

\* counter.go:255-282, with charsPerToken 4.0 and wordsPerToken 0.75
getApproximations(text) ==
    <<[Name |-> "character_based_div4", Tokens |-> Len(text) \div 4,
       IsExact |-> FALSE, ContextWindow |-> 0],
      [Name |-> "word_based_mul133", Tokens |-> (countWords(text) * 4) \div 3,
       IsExact |-> FALSE, ContextWindow |-> 0],
      [Name |-> "whitespace_split", Tokens |-> countWords(text),
       IsExact |-> FALSE, ContextWindow |-> 0]>>

\* counter.go:198-208
encodingMatchesProvider(encoding, provider) ==
    IF encoding = "o200k_base" THEN provider = "openai"
    ELSE IF encoding = "cl100k_base"
         THEN provider \in {"openai", "meta", "deepseek", "alibaba", "microsoft"}
    ELSE IF encoding = "claude_approx" THEN provider = "anthropic"
    ELSE FALSE

\* sort.Strings(keys) of the four possible keys
SortedKeys(tokenizers) ==
    SelectSeq(<<"cl100k_base", "claude_approx", "o200k_base", "spm">>,
              LAMBDA k : k \in DOMAIN tokenizers)

\* counter.go:158-195
countAllMethods(c, text) ==
    LET keys == SelectSeq(SortedKeys(c.tokenizers),
                          LAMBDA k : c.provider \in {"", "all"}
                                     \/ encodingMatchesProvider(k, c.provider))
    IN [i \in DOMAIN keys |->
           [Name |-> c.tokenizers[keys[i]].Name,
            Tokens |-> CountTokens(c.tokenizers[keys[i]], text),
            IsExact |-> c.tokenizers[keys[i]].IsExact, ContextWindow |-> 0]]
       \o getApproximations(text)

\* (the lookup of the model in the registry left out)
countSpecificModelNoRegistry(c, text, model) ==
    IF model \in DOMAIN c.tokenizers
    THEN <<[Name |-> c.tokenizers[model].Name,
            Tokens |-> CountTokens(c.tokenizers[model], text),
            IsExact |-> c.tokenizers[model].IsExact, ContextWindow |-> 0]>>
    ELSE getApproximations(text)

\* counter.go:211-252; the name "bpe_" + model with "-" replaced is kept as a pair
countSpecificModel(c, text, model) ==
    LET m == GetModelMetadata(model) IN
    IF m.found /\ m.meta.Encoding \in DOMAIN c.tokenizers
    THEN <<[Name |-> <<"bpe_", model>>,
            Tokens |-> CountTokens(c.tokenizers[m.meta.Encoding], text),
            IsExact |-> c.tokenizers[m.meta.Encoding].IsExact,
            ContextWindow |-> m.meta.ContextWindow]>>
    ELSE IF model \in DOMAIN c.tokenizers
    THEN <<[Name |-> c.tokenizers[model].Name,
            Tokens |-> CountTokens(c.tokenizers[model], text),
            IsExact |-> c.tokenizers[model].IsExact,
            ContextWindow |-> IF m.found THEN m.meta.ContextWindow ELSE 0]>>
    ELSE getApproximations(text)

\* counter.go:49-72; ctxErr is what ctx.Err() returns, "" for nil
CounterCount(c, ctxErr, text, model, all) ==
    IF ctxErr # "" THEN [err |-> ctxErr, result |-> "nil"]
    ELSE [err |-> "",
          result |-> [Characters |-> Len(text), Words |-> countWords(text),
                      Lines |-> countLines(text),
                      Methods |-> IF all \/ model = "" THEN countAllMethods(c, text)
                                  ELSE countSpecificModel(c, text, model)]]

InitCount ==
    /\ PQIdle
    /\ SPMIdle
    /\ BPEIdle
    /\ CacheIdle
    /\ \E vocabFile \in {"", "llama.model"}, provider \in Providers :
          fnCall = [pc |-> "counter",
                    counter |-> NewCounter([VocabFile |-> vocabFile, Provider |-> provider])]

\* a call c.Count(ctx, text, model, all)
CallCount(ctxErr, text, model, all) ==
    /\ fnCall.pc = "counter"
    /\ fnCall' = [pc |-> "counted", counter |-> fnCall.counter, ctxErr |-> ctxErr,
                  text |-> text, model |-> model, all |-> all,
                  out |-> CounterCount(fnCall.counter, ctxErr, text, model, all)]
    /\ UNCHANGED notFn

NextCount ==
    \E ctxErr \in {"", "context canceled"}, text \in CountTexts(MaxCountText),
       model \in ModelNames, all \in BOOLEAN :
        CallCount(ctxErr, text, model, all)

SpecCount == InitCount /\ [][NextCount]_vars

\* a finished call for one named model with a live context
SingleModelCall ==
    /\ fnCall.pc = "counted"
    /\ ~fnCall.all
    /\ fnCall.model # ""
    /\ fnCall.ctxErr = ""

Registered(model) == GetModelMetadata(model).found

\* the single result of a registered model whose encoding has a tokenizer
RegisteredResult ==
    LET c == fnCall.counter
        meta == GetModelMetadata(fnCall.model).meta
        methods == fnCall.out.result.Methods
    IN (Registered(fnCall.model) /\ meta.Encoding \in DOMAIN c.tokenizers) =>
          /\ fnCall.out.err = ""
          /\ Len(methods) = 1
          /\ methods[1].ContextWindow = meta.ContextWindow
          /\ methods[1].IsExact = c.tokenizers[meta.Encoding].IsExact

IsApproximations(methods) ==
    /\ Len(methods) >= 3
    /\ \A i \in DOMAIN methods :
          /\ ~methods[i].IsExact
          /\ methods[i].Name \in {"character_based_div4", "word_based_mul133",
                                  "whitespace_split"}

\* C19 as stated: a call of Counter.Count for one named model returns exactly one
\* method result with the model's context window and the tokenizer's exactness
\* when the model is registered and its encoding has a tokenizer, and for every
\* unregistered model name the approximation methods (at least three), no error.
C19_AnyUnregisteredApproximated ==
    SingleModelCall =>
        /\ RegisteredResult
        /\ ~Registered(fnCall.model) =>
              /\ fnCall.out.err = ""
              /\ IsApproximations(fnCall.out.result.Methods)

\* C19: a call of Counter.Count for one named model returns exactly one method
\* result with the model's context window and the tokenizer's exactness when the
\* model is registered and its encoding has a tokenizer; an unregistered name
\* that is the key of a tokenizer returns that tokenizer's single result with
\* context window 0; any other unregistered name returns exactly the three
\* approximation methods; none of these calls returns an error.
C19_SingleModelResult ==
    SingleModelCall =>
        LET c == fnCall.counter
            methods == fnCall.out.result.Methods
        IN /\ RegisteredResult
           /\ ~Registered(fnCall.model) =>
                 /\ fnCall.out.err = ""
                 /\ IF fnCall.model \in DOMAIN c.tokenizers
                    THEN /\ Len(methods) = 1
                         /\ methods[1].Name = c.tokenizers[fnCall.model].Name
                         /\ methods[1].IsExact = c.tokenizers[fnCall.model].IsExact
                         /\ methods[1].ContextWindow = 0
                    ELSE /\ Len(methods) = 3
                         /\ IsApproximations(methods)

\* a registered model counted exactly on a text of more than one token
C19_Witness ==
    /\ SingleModelCall
    /\ fnCall.model = "gpt-5"
    /\ fnCall.text = <<"a", " ", "a">>
    /\ Len(fnCall.out.result.Methods) = 1
    /\ fnCall.out.result.Methods[1].IsExact
    /\ fnCall.out.result.Methods[1].ContextWindow = 400000
    /\ fnCall.out.result.Methods[1].Tokens > 1

----------------------------------------------------------------------------
(***************************************************************************)
(* Live merge candidates and the failures of SentencePiece Encode          *)
(***************************************************************************)

\* the candidate the next iteration of the merge loop pops
NextCandidate(t) == calls[t].mergeQueue[1]

\* a candidate that passes the staleness check names two adjacent symbols whose
\* concatenation is a piece of the recorded length
LiveCandidateSound(t) ==
    (calls[t].pc = "merge" /\ Len(calls[t].mergeQueue) > 0
     /\ ~candidateIsDead(calls[t].symList, NextCandidate(t))) =>
        LET left == Sym(calls[t].symList, NextCandidate(t).left)
            right == Sym(calls[t].symList, NextCandidate(t).right)
            m == findMerged(spmProc, left, right)
        IN /\ left.next = NextCandidate(t).right
           /\ right.prev = NextCandidate(t).left
           /\ m.ok
           /\ Len(m.symbol) = NextCandidate(t).length
           /\ m.symbol = left.symbol \o right.symbol

\* C20: every merge candidate that passes the staleness check refers to two
\* adjacent symbols whose concatenation is a piece of the model, so the merge
\* loop never aborts with "failed to merge symbols", and no call of Encode, on
\* any input, ends in a panic.
C20_EncodeNeverFails ==
    \A t \in Threads :
        /\ LiveCandidateSound(t)
        /\ calls[t].pc # "panic"

\* the merge loop alone: live candidates are sound and the abort of line 227 is
\* never reached
MergeLoopNeverAborts ==
    \A t \in Threads :
        /\ LiveCandidateSound(t)
        /\ calls[t].pc = "panic" => calls[t].last = "slice"

\* a live candidate is about to be merged after an earlier merge
LiveCandidateReached ==
    /\ calls[1].pc = "merge"
    /\ calls[1].applied > 0
    /\ Len(calls[1].mergeQueue) > 0
    /\ ~candidateIsDead(calls[1].symList, NextCandidate(1))

----------------------------------------------------------------------------
(***************************************************************************)
(* The merge loop of SentencePiece Encode, step by step                    *)
(***************************************************************************)

\* the candidates of a queue that pass the staleness check
LiveCandidates(symList, queue) ==
    {queue[i] : i \in {j \in DOMAIN queue : ~candidateIsDead(symList, queue[j])}}

\* the step of goroutine t applied a merge
MergeApplied(t) ==
    /\ calls[t].pc = "merge"
    /\ calls'[t].pc = "merge"
    /\ calls'[t].applied = calls[t].applied + 1

\* the node a step emptied: the right operand of the merge it applied
EmptiedBy(t) ==
    CHOOSE r \in 0..(Len(calls[t].symList) - 1) :
        Sym(calls[t].symList, r).symbol # <<>> /\ Sym(calls'[t].symList, r).symbol = <<>>

\* the score of the piece with the given text
PieceScore(proc, text) == proc.mdl.pieces[proc.pieces[text] + 1].score

AppliedIsBest(t) ==
    MergeApplied(t) =>
        LET right == EmptiedBy(t)
            left == Sym(calls[t].symList, right).prev
            merged == Sym(calls'[t].symList, left).symbol
            score == PieceScore(spmProc, merged)
        IN /\ merged = Sym(calls[t].symList, left).symbol \o Sym(calls[t].symList, right).symbol
           /\ \E c \in LiveCandidates(calls[t].symList, calls[t].mergeQueue) :
                 c.left = left /\ c.right = right /\ c.score = score
           /\ \A c \in LiveCandidates(calls[t].symList, calls[t].mergeQueue) :
                 \/ c.score < score
                 \/ c.score = score /\ c.left >= left

\* C21: every merge the loop applies is the one of the live candidate with the
\* highest piece score among the live candidates queued at that moment, and
\* among live candidates of equal score the one with the smallest left index.
C21_BestLiveCandidateMerged == [][\A t \in Threads : AppliedIsBest(t)]_vars

\* a merge of the leftmost pair was applied while a live candidate of the same
\* score, further right, stayed queued
C21_Witness ==
    /\ calls[1].pc = "merge"
    /\ calls[1].applied = 1
    /\ Sym(calls[1].symList, 0).symbol = <<97, 98>>
    /\ \E c \in LiveCandidates(calls[1].symList, calls[1].mergeQueue) :
          c.left > 0 /\ c.score = PieceScore(spmProc, <<97, 98>>)

\* the step of goroutine t pops a candidate that fails the staleness check
StalePop(t) ==
    /\ calls[t].pc = "merge"
    /\ Len(calls[t].mergeQueue) > 0
    /\ candidateIsDead(calls[t].symList, NextCandidate(t))
    /\ calls'[t] # calls[t]

\* C22: a step that pops a stale candidate leaves the symbol list and the
\* live-symbol count unchanged and increments the dead-entry counter by one.
C22_StaleDiscarded ==
    [][\A t \in Threads :
          StalePop(t) =>
              /\ calls'[t].symList = calls[t].symList
              /\ calls'[t].nTokens = calls[t].nTokens
              /\ calls'[t].mergeQueueDead = calls[t].mergeQueueDead + 1]_vars

\* how often a candidate occurs in a queue
QueueCount(queue, c) == Cardinality({i \in DOMAIN queue : queue[i] = c})

\* the step of goroutine t pops a live candidate and finds, at line 220, that
\* three times the dead count exceeds the length of the queue left by the pop
CompactStep(t) ==
    /\ calls[t].pc = "merge"
    /\ Len(calls[t].mergeQueue) > 0
    /\ ~candidateIsDead(calls[t].symList, NextCandidate(t))
    /\ calls[t].mergeQueueDead * 3 > Len(calls[t].mergeQueue) - 1
    /\ calls'[t] # calls[t]

\* the queue the pop leaves holds c this often
LeftByPop(t, c) ==
    QueueCount(calls[t].mergeQueue, c) - (IF c = NextCandidate(t) THEN 1 ELSE 0)

Purged(t) ==
    CompactStep(t) =>
        /\ calls'[t].mergeQueueDead = 1
        /\ \A i \in DOMAIN calls[t].mergeQueue :
              LET c == calls[t].mergeQueue[i] IN
              IF candidateIsDead(calls[t].symList, c)
              THEN QueueCount(calls'[t].mergeQueue, c) = 0
              ELSE QueueCount(calls'[t].mergeQueue, c) = LeftByPop(t, c)

----------------------------------------------------------------------------
(***************************************************************************)
(* Segmentation and no-merge symbols                                       *)
(***************************************************************************)

\* the texts of the USER_DEFINED pieces of a model
UserDefinedTexts(proc) ==
    {proc.mdl.pieces[i].piece :
        i \in {j \in DOMAIN proc.mdl.pieces : proc.mdl.pieces[j].type = "USER_DEFINED"}}

\* the length of the longest user-defined token the text starts with, 0 for none
LongestUserDefined(proc, text) ==
    LET lens == {Len(w) : w \in {u \in UserDefinedTexts(proc) : HasPrefix(text, u)}} IN
    IF lens = {} THEN 0 ELSE CHOOSE n \in lens : \A m \in lens : m <= n

\* the symbols the contract asks for: at each cursor the longest user-defined
\* token, marked no-merge, else one scalar value (one byte where none decodes)
RECURSIVE ContractSymbols(_, _)
ContractSymbols(proc, text) ==
    LET ud == LongestUserDefined(proc, text)
        n == IF ud > 0 THEN ud ELSE DecodeRune(text).size
        sym == [noMerge |-> ud > 0, symbol |-> SubSeq(text, 1, n)]
    IN <<sym>> \o (IF Drop(text, n) = <<>> THEN <<>> ELSE ContractSymbols(proc, Drop(text, n)))

\* the symbol list as segmented: what the loop of lines 136-149 built
Segmented(t) ==
    calls[t].last = "seed" =>
        LET want == ContractSymbols(spmProc, calls[t].normalized) IN
        /\ Len(calls[t].symList) = Len(want)
        /\ \A i \in DOMAIN want :
              /\ calls[t].symList[i].symbol = want[i].symbol
              /\ calls[t].symList[i].noMerge = want[i].noMerge

\* no queued candidate has a no-merge operand, and no merge touched a no-merge node
NoMergeUntouched(t) ==
    LET want == ContractSymbols(spmProc, calls[t].normalized) IN
    /\ \A i \in DOMAIN calls[t].mergeQueue :
          /\ ~Sym(calls[t].symList, calls[t].mergeQueue[i].left).noMerge
          /\ ~Sym(calls[t].symList, calls[t].mergeQueue[i].right).noMerge
    /\ \A i \in DOMAIN calls[t].symList :
          calls[t].symList[i].noMerge =>
              /\ i \in DOMAIN want
              /\ calls[t].symList[i].symbol = want[i].symbol
              /\ calls[t].symList[i].symbol \in UserDefinedTexts(spmProc)

\* each no-merge symbol is one token of the output, with its text
NoMergeMaterialized(t) ==
    calls[t].pc = "done" =>
        \A u \in UserDefinedTexts(spmProc) :
            Cardinality({k \in DOMAIN calls[t].tokens :
                            calls[t].tokens[k] = [ID |-> spmProc.pieces[u], Text |-> u]})
            = Cardinality({i \in DOMAIN calls[t].symList :
                              calls[t].symList[i].noMerge /\ calls[t].symList[i].symbol = u})

\* C24: segmentation takes at each cursor the longest user-defined-token prefix
\* as one no-merge symbol, otherwise one scalar value; a no-merge symbol is
\* never an operand of a queued candidate or of an applied merge, and it is one
\* token of the materialized output, with its original text.
C24_NoMergeSymbols ==
    \A t \in Threads :
        calls[t].pc \in {"merge", "done"} =>
            /\ Segmented(t)
            /\ NoMergeUntouched(t)
            /\ NoMergeMaterialized(t)

----------------------------------------------------------------------------
(***************************************************************************)
(* Termination of the merge loop                                           *)
(***************************************************************************)

\* Encode runs to its return once called: the loop of one call is not preempted
\* forever
SpecSPMFair == SpecSPM /\ WF_vars(MergeStep(1)) /\ WF_vars(Materialize(1))

\* n, the number of symbols segmentation produced
InitialSymbols(t) == Len(calls[t].symList)

\* what is left to do: the queued candidates, and two more for each merge that
\* can still be applied
LoopMeasure(c) == Len(c.mergeQueue) + 2 * (Len(c.symList) - 1 - c.applied)

MergeBudget(t) ==
    calls[t].pc = "merge" =>
        /\ calls[t].applied <= InitialSymbols(t) - 1
        /\ calls[t].last = "seed" => Len(calls[t].mergeQueue) <= InitialSymbols(t) - 1
        /\ Len(calls[t].mergeQueue) <= (InitialSymbols(t) - 1) + 2 * calls[t].applied
        /\ LoopMeasure(calls[t]) <= 3 * (InitialSymbols(t) - 1)

\* an iteration of the loop of goroutine t
LoopIteration(t) ==
    /\ calls[t].pc = "merge"
    /\ Len(calls[t].mergeQueue) > 0
    /\ calls'[t].pc = "merge"

IterationShrinks(t) ==
    LoopIteration(t) =>
        /\ calls'[t].applied \in {calls[t].applied, calls[t].applied + 1}
        /\ Len(calls'[t].mergeQueue)
              <= Len(calls[t].mergeQueue) - 1 + 2 * (calls'[t].applied - calls[t].applied)
        /\ LoopMeasure(calls'[t]) < LoopMeasure(calls[t])
        /\ LoopMeasure(calls'[t]) >= 0

\* C25: Encode terminates: every iteration of the merge loop takes one candidate
\* off the queue and queues at most two for an applied merge, at most n-1 merges
\* are applied to n initial symbols, so at most (n-1) + 2(n-1) candidates are
\* ever queued and every call that enters the loop returns.
C25_MergeLoopBounded ==
    /\ [](\A t \in Threads : MergeBudget(t))
    /\ [][\A t \in Threads : IterationShrinks(t)]_vars
    /\ (calls[1].pc = "merge") ~> (calls[1].pc = "done")

\* a call returned after n-1 merges on n symbols, stale pops included
C25_Witness ==
    /\ calls[1].pc = "done"
    /\ InitialSymbols(1) = 4
    /\ calls[1].applied = 3
    /\ calls[1].mergeQueueDead < calls[1].applied

----------------------------------------------------------------------------
(***************************************************************************)
(* What the merge loop leaves                                              *)
(***************************************************************************)

\* Go indices of the surviving symbols that have a surviving successor
WithSuccessor(symList) ==
    {i \in 0..(Len(symList) - 1) :
        /\ Sym(symList, i).symbol # <<>>
        /\ Sym(symList, i).next >= 0
        /\ Sym(symList, Sym(symList, i).next).symbol # <<>>}

\* the pair (i, next of i) may merge: neither is no-merge and the concatenation is
\* a piece of the pieces index
Mergeable(proc, symList, i) ==
    LET x == Sym(symList, i)
        y == Sym(symList, x.next)
    IN ~x.noMerge /\ ~y.noMerge /\ (x.symbol \o y.symbol) \in DOMAIN proc.pieces

\* while the loop runs every mergeable adjacent pair has its candidate queued
MergeableQueued(t) ==
    calls[t].pc = "merge" =>
        \A i \in WithSuccessor(calls[t].symList) :
            Mergeable(spmProc, calls[t].symList, i) =>
                \E c \in LiveCandidates(calls[t].symList, calls[t].mergeQueue) :
                    c.left = i /\ c.right = Sym(calls[t].symList, i).next

\* when the loop has ended no adjacent pair is mergeable
NothingLeftToMerge(t) ==
    calls[t].pc = "done" =>
        \A i \in WithSuccessor(calls[t].symList) : ~Mergeable(spmProc, calls[t].symList, i)

\* C26: when the merge loop of Encode ends, no two adjacent surviving symbols
\* that are both not no-merge have a concatenation that is a piece; until then
\* every mergeable adjacent pair keeps a live candidate in the queue, which
\* compaction never drops.
C26_NoMergeablePairLeft ==
    \A t \in Threads : MergeableQueued(t) /\ NothingLeftToMerge(t)

\* a call returned, after merges, with several symbols left
C26_Witness ==
    /\ calls[1].pc = "done"
    /\ calls[1].applied >= 2
    /\ WithSuccessor(calls[1].symList) # {}
    /\ \E i \in WithSuccessor(calls[1].symList) :
          /\ ~Sym(calls[1].symList, i).noMerge
          /\ ~Sym(calls[1].symList, Sym(calls[1].symList, i).next).noMerge

----------------------------------------------------------------------------
(***************************************************************************)
(* The tokens Encode returns                                               *)
(***************************************************************************)

\* the index of the last piece with the given text and one of the given types,
\* -1 if there is none
PieceIndex(mdl, text, types) ==
    LET js == {j \in DOMAIN mdl.pieces :
                  mdl.pieces[j].piece = text /\ mdl.pieces[j].type \in types}
    IN IF js = {} THEN -1 ELSE (CHOOSE j \in js : \A k \in js : k <= j) - 1

ReservedTypes == {"CONTROL", "UNKNOWN", "BYTE"}

IndexedTypes == {"NORMAL", "USER_DEFINED", "UNUSED"}

\* the symbols left in the list, head first; the head is visited even when empty
Survivors(symList) ==
    <<symList[1].symbol>>
    \o [k \in DOMAIN SelectSeq(Tail(symList), LAMBDA e : e.symbol # <<>>) |->
           SelectSeq(Tail(symList), LAMBDA e : e.symbol # <<>>)[k].symbol]

\* the tokens the contract gives one symbol
ContractTokens(mdl, symbol) ==
    LET unk == PieceIndex(mdl, unkText, {"UNKNOWN"})
        id == IF PieceIndex(mdl, symbol, ReservedTypes) >= 0
              THEN PieceIndex(mdl, symbol, ReservedTypes)
              ELSE IF PieceIndex(mdl, symbol, IndexedTypes) >= 0
                   THEN PieceIndex(mdl, symbol, IndexedTypes)
              ELSE unk
    IN IF id = unk /\ mdl.byteFallback
       THEN [j \in 1..Len(symbol) |->
                [ID |-> PieceIndex(mdl, bytePieceText(symbol[j]), {"BYTE"}),
                 Text |-> bytePieceText(symbol[j])]]
       ELSE <<[ID |-> id, Text |-> symbol]>>

\* C27: the tokens Encode returns are, for each surviving symbol in list order
\* from the head, the token of its text looked up in the reserved index, then in
\* the pieces index, else UNKNOWN; an UNKNOWN symbol gives one byte-piece token
\* per byte of its text when byte fallback is on, a single UNKNOWN token if not.
C27_Materialized ==
    \A t \in Threads :
        calls[t].pc = "done" =>
            LET syms == Survivors(calls[t].symList) IN
            calls[t].tokens =
                Concat([k \in DOMAIN syms |-> ContractTokens(spmProc.mdl, syms[k])])

\* a returned call with a piece token, a reserved-index token and a byte token
C27_Witness ==
    /\ calls[1].pc = "done"
    /\ spmProc.mdl = ReservedModel
    /\ calls[1].input = <<97, 98, 128>>
    /\ Len(calls[1].tokens) = 3
    /\ calls[1].tokens[2].ID = PieceIndex(ReservedModel, <<98>>, {"CONTROL"})
    /\ calls[1].tokens[3].Text = bytePieceText(128)

----------------------------------------------------------------------------
(***************************************************************************)
(* What Decode writes                                                      *)
(***************************************************************************)

TypeOfID(mdl, id) == mdl.pieces[id + 1].type

\* the byte value the byte piece <0xHH> of an id stands for
ByteOfID(mdl, id) ==
    LET text == mdl.pieces[id + 1].piece IN
    16 * HexDigitVal(text[4]) + HexDigitVal(text[5])

\* the length of the maximal run of byte ids the sequence starts with
RECURSIVE LeadingByteIDs(_, _)
LeadingByteIDs(mdl, ids) ==
    IF ids # <<>> /\ TypeOfID(mdl, Head(ids)) = "BYTE"
    THEN 1 + LeadingByteIDs(mdl, Tail(ids))
    ELSE 0

\* bytes read as UTF-8, rune by rune; a byte that starts no rune reads as U+FFFD
Utf8Text(bytes) == Concat(Runes(bytes))

\* what one id that is not a byte id contributes
Contribution(mdl, id) ==
    IF TypeOfID(mdl, id) = "CONTROL" THEN <<>>
    ELSE IF id = PieceIndex(mdl, unkText, {"UNKNOWN"}) THEN mdl.unkSurface
    ELSE ReplaceAll(mdl.pieces[id + 1].piece, whitespaceSeparator, <<32>>)

\* the text the contract gives an id sequence, left to right
RECURSIVE ContractDecode(_, _)
ContractDecode(mdl, ids) ==
    IF ids = <<>> THEN <<>>
    ELSE LET n == LeadingByteIDs(mdl, ids) IN
         IF n > 0
         THEN Utf8Text([k \in 1..n |-> ByteOfID(mdl, ids[k])])
              \o ContractDecode(mdl, Drop(ids, n))
         ELSE Contribution(mdl, Head(ids)) \o ContractDecode(mdl, Tail(ids))

\* C28: Decode goes through the ids left to right: each maximal run of byte ids
\* is turned into its bytes and read as UTF-8, a CONTROL id adds nothing, the
\* UNKNOWN id adds the model's unknown surface, any other id adds its piece text
\* with the whitespace separator turned into a space.
C28_DecodeByKind ==
    \A t \in Threads :
        calls[t].pc = "decoded" =>
            calls[t].decoded = ContractDecode(spmProc.mdl, tokenIDs(calls[t].tokens))

\* a piece, a CONTROL id and a byte id that is no UTF-8 were decoded
C28_Witness ==
    /\ calls[1].pc = "decoded"
    /\ spmProc.mdl = ReservedModel
    /\ calls[1].input = <<97, 98, 128>>
    /\ calls[1].decoded = <<97>> \o RuneError

----------------------------------------------------------------------------
(***************************************************************************)
(* The ids of one pre-tokenized chunk                                      *)
(***************************************************************************)

\* the chunks the split pattern cuts a text into, as byte strings
Chunks(enc, text) ==
    LET mats == findAllMatchIndices(text, enc.splitRegex) IN
    [k \in DOMAIN mats |-> TextBytes(cutRunes(text, mats[k][1], mats[k][2]))]

\* the positions of the adjacent pairs of parts whose concatenation has a rank
RankedPairs(parts, ranks) ==
    {i \in 1..(Len(parts) - 1) : (parts[i] \o parts[i + 1]) \in DOMAIN ranks}

\* the leftmost of the pairs of lowest rank
LowestPair(parts, ranks) ==
    LET lowest == CHOOSE r \in {ranks[parts[i] \o parts[i + 1]] : i \in RankedPairs(parts, ranks)} :
                      \A i \in RankedPairs(parts, ranks) : r <= ranks[parts[i] \o parts[i + 1]]
    IN CHOOSE i \in RankedPairs(parts, ranks) :
          /\ ranks[parts[i] \o parts[i + 1]] = lowest
          /\ \A j \in RankedPairs(parts, ranks) :
                ranks[parts[j] \o parts[j + 1]] = lowest => i <= j

RECURSIVE ContractParts(_, _)
ContractParts(parts, ranks) ==
    IF RankedPairs(parts, ranks) = {} THEN parts
    ELSE LET p == LowestPair(parts, ranks) IN
         ContractParts(SubSeq(parts, 1, p - 1) \o <<parts[p] \o parts[p + 1]>>
                       \o SubSeq(parts, p + 2, Len(parts)), ranks)

\* the ids the contract gives a chunk
ChunkIDs(chunk, ranks) ==
    IF chunk \in DOMAIN ranks THEN <<ranks[chunk]>>
    ELSE LET parts == ContractParts([k \in DOMAIN chunk |-> <<chunk[k]>>], ranks) IN
         [k \in DOMAIN parts |-> ranks[parts[k]]]

\* the ids of a chunk stand for parts that make up the chunk, and if the chunk is
\* no table entry no two neighbours among them have a ranked concatenation
PartsOfChunk(enc, chunk, ids) ==
    /\ \A k \in DOMAIN ids : ids[k] \in DOMAIN enc.decoder
    /\ Concat([k \in DOMAIN ids |-> enc.decoder[ids[k]]]) = chunk
    /\ chunk \notin DOMAIN enc.encoder =>
          \A k \in 1..(Len(ids) - 1) :
              (enc.decoder[ids[k]] \o enc.decoder[ids[k + 1]]) \notin DOMAIN enc.encoder

\* C29: for each pre-tokenized chunk the engine emits the chunk's rank alone when
\* the chunk is an entry of the rank table, and otherwise the ranks, left to
\* right, of the parts that remain when, starting from single bytes, the adjacent
\* pair of lowest rank (leftmost on ties) is merged until no pair has a rank; the
\* parts concatenate to the chunk.
C29_PerChunkIDs ==
    Returned("EncodeOrdinary") =>
        LET enc == bpeTok.encoder
            chunks == Chunks(enc, bpeCall.text)
        IN /\ bpeCall.out.tokens =
                 Concat([k \in DOMAIN chunks |-> ChunkIDs(chunks[k], enc.encoder)])
           /\ \A k \in DOMAIN chunks :
                 PartsOfChunk(enc, chunks[k], ChunkIDs(chunks[k], enc.encoder))

\* a chunk that is no table entry: the pair of lowest rank is merged, not the
\* leftmost ranked pair
C29_Witness ==
    /\ Returned("EncodeOrdinary")
    /\ bpeCall.text = <<" ", "a", "a">>
    /\ Chunks(bpeTok.encoder, bpeCall.text) = <<bpeCall.text>>
    /\ bpeCall.out.tokens = <<8, 12>>

----------------------------------------------------------------------------
(***************************************************************************)
(* Termination of Encoder.encode                                           *)
(***************************************************************************)

\* core.go:85-97: whether the search loop from startFind repeats one iteration
\* for ever: a match that is not allowed ends at offset 0, so that
\* `startFind += nextSpecial[1]` leaves startFind where it was
RECURSIVE searchStalls(_, _, _, _)
searchStalls(enc, textRunes, allowedSpecial, startFind) ==
    LET temp == cutRunes(textRunes, startFind, Len(textRunes))
        nextSpecial == findMatchIndex(temp, enc.specialRegex)
    IN IF nextSpecial = <<>> THEN FALSE
       ELSE IF cutRunes(textRunes, startFind + nextSpecial[1], startFind + nextSpecial[2])
                  \in allowedSpecial
            THEN FALSE
       ELSE IF nextSpecial[2] = 0 THEN TRUE
       ELSE searchStalls(enc, textRunes, allowedSpecial, startFind + nextSpecial[2])

\* core.go:82-125: whether the outer loop from start never ends: its search
\* stalls, or an accepted match ends at offset 0 and line 120 leaves start where
\* it was
RECURSIVE encodeStalls(_, _, _, _)
encodeStalls(enc, textRunes, allowedSpecial, start) ==
    IF searchStalls(enc, textRunes, allowedSpecial, start) THEN TRUE
    ELSE LET nextSpecial == nextAllowedSpecial(enc, textRunes, allowedSpecial, start) IN
         IF nextSpecial = <<>> THEN FALSE
         ELSE IF nextSpecial[2] = 0 THEN TRUE
         ELSE encodeStalls(enc, textRunes, allowedSpecial, start + nextSpecial[2])

\* the special-token tables the encoders are built with, the empty one included
SpecialTables == {<<>>, EndOfText :> 50256, SpecialTokens}

AllowedSets == SUBSET {EndOfText, FIMPrefix}

InitEnc ==
    /\ PQIdle
    /\ SPMIdle
    /\ BPEIdle
    /\ CacheIdle
    /\ \E specials \in SpecialTables : \E order \in Orders(DOMAIN specials) :
          fnCall = [pc |-> "built",
                    enc |-> NewEncoder(MergeableRanks, specials, P50kPat, order)]

\* enc.encode(text, allowedSpecial); a call whose loop never ends stays in it
EncoderEncode(text, allowedSpecial) ==
    /\ fnCall.pc = "built"
    /\ fnCall' = IF encodeStalls(fnCall.enc, text, allowedSpecial, 0)
                 THEN [pc |-> "looping", enc |-> fnCall.enc, text |-> text,
                       allowedSpecial |-> allowedSpecial, tokens |-> <<>>]
                 ELSE [pc |-> "returned", enc |-> fnCall.enc, text |-> text,
                       allowedSpecial |-> allowedSpecial,
                       tokens |-> encode(fnCall.enc, text, allowedSpecial)]
    /\ UNCHANGED notFn

NextEnc ==
    \E text \in SpecialTexts, allowedSpecial \in AllowedSets :
        EncoderEncode(text, allowedSpecial)

SpecEnc == InitEnc /\ [][NextEnc]_vars

\* C30: for every encoder NewEncoder builds, the one with an empty special-token
\* table included, and every text and allowed set, encode terminates: no call
\* stays in its loops for ever.
C30_EncodeTerminates == fnCall.pc # "looping"

====
